---- MODULE Spec2Model ----
(***************************************************************************)
(* Model of the Likelihood Calculator (docs/app.js, class                  *)
(* LikelihoodCalculator): the scoring engine, the entity store kept in     *)
(* localStorage under the key 'entities', and the slug router.             *)
(*                                                                         *)
(* Conventions                                                             *)
(*  - A JavaScript number is a record [k, n, d]: k = "fin" is the rational *)
(*    n/d in lowest terms (d > 0), k = "nan" is NaN, k = "null" is the     *)
(*    JSON null a NaN becomes when it is serialised.  Arithmetic is exact. *)
(*  - A range input holds its value in quarter units (q = 4 * value), the  *)
(*    step of the sliders being 0.25.                                      *)
(*  - Text that is taken apart by the code (names that are slugified, URL  *)
(*    segments) is a sequence of one-character strings.                    *)
(*  - Array and index values are zero-based as in the source; the          *)
(*    sequences that hold arrays are read at index + 1.                    *)
(*  - A handler is an operator from a state record to a state record; the  *)
(*    field exc is set when an exception is in flight, and every step of a *)
(*    handler is skipped while it is set.                                  *)
(***************************************************************************)
EXTENDS Integers, Sequences, FiniteSets, TLC

VARIABLES
    catalog,                    \* the content of /profiles.json, or "unavailable"
    loaded,                     \* "loading" | "ready" | "failed": outcome of init()
    categories,                 \* this.categories
    selectedCategoryIndex,      \* this.selectedCategoryIndex
    selectedProfileIndex,       \* this.selectedProfileIndex
    adjustedCriteria,           \* this.adjustedCriteria
    sliders,                    \* values of the range inputs of #criteriaTable
    descriptorTexts,            \* texts of the .score-descriptor cells
    percentageText,             \* #percentageLikelihood textContent
    weightWarning,              \* #weightWarning is displayed
    pieChartOption,             \* the checked pieChartOption radio
    chartData,                  \* likelihoodChart.data.datasets[0].data
    investorOptions,            \* option values of #investorSelect
    investorValue,              \* #investorSelect value ("" when none)
    investorImage,              \* #investorImage src
    investorList,               \* items of #investorList
    storage,                    \* localStorage item 'entities'
    currentEditingInvestorName, \* this.currentEditingInvestorName
    modalPreview,               \* #modalInvestorImagePreview src
    modalOpen,                  \* the edit modal is shown
    pathname,                   \* window.location.pathname, split into segments
    history,                    \* paths of the entries of the session history
    cursor,                     \* index of the current entry in history
    pushed,                     \* entries history.pushState added during the last event
    pathSegments,               \* the segments handleSlugNavigation found during the last event
    mgmtListeners,              \* times initInvestorManagement registered its listeners
    popstateWired,              \* the popstate listener is registered
    pending,                    \* click being dispatched to the registered listeners
    alerts,                     \* messages shown by alert() during the last event
    thrown,                     \* the last event ended with an uncaught exception
    lastEvent,                  \* the last event handled: its name and what the user answered
    events                      \* number of user events handled so far

vars == <<catalog, loaded, categories, selectedCategoryIndex, selectedProfileIndex,
          adjustedCriteria, sliders, descriptorTexts, percentageText, weightWarning,
          pieChartOption, chartData, investorOptions, investorValue, investorImage,
          investorList, storage, currentEditingInvestorName, modalPreview, modalOpen, pathname,
          history, cursor, pushed, pathSegments, mgmtListeners, popstateWired, pending, alerts, thrown, lastEvent, events>>

(***************************************************************************)
(* Bounds of the model.                                                    *)
(***************************************************************************)
MaxEvents == 3
MaxCriteria == 2
MaxNameLen == 3

(***************************************************************************)
(* JavaScript numbers.                                                     *)
(***************************************************************************)
Abs(x) == IF x < 0 THEN -x ELSE x

RECURSIVE GCD(_, _)
GCD(a, b) == IF b = 0 THEN a ELSE GCD(b, a % b)

NaN == [k |-> "nan", n |-> 0, d |-> 1]
Null == [k |-> "null", n |-> 0, d |-> 1]

Rat(n, d) ==
    LET g == GCD(Abs(n), d)
    IN  [k |-> "fin", n |-> n \div g, d |-> d \div g]

Num(i) == Rat(i, 1)

IsFin(x) == x.k = "fin"

Add(a, b) == IF IsFin(a) /\ IsFin(b) THEN Rat(a.n * b.d + b.n * a.d, a.d * b.d) ELSE NaN
Sub(a, b) == IF IsFin(a) /\ IsFin(b) THEN Rat(a.n * b.d - b.n * a.d, a.d * b.d) ELSE NaN
Mul(a, b) == IF IsFin(a) /\ IsFin(b) THEN Rat(a.n * b.n, a.d * b.d) ELSE NaN

\* The weights of a catalog are not negative, so the only zero divisor the
\* code meets is the weight sum of an all-zero profile, where 0 / 0 is NaN.
Div(a, b) ==
    IF IsFin(a) /\ IsFin(b) /\ b.n # 0
    THEN IF b.n > 0 THEN Rat(a.n * b.d, a.d * b.n) ELSE Rat(-(a.n * b.d), a.d * (-b.n))
    ELSE NaN

Less(a, b) == IsFin(a) /\ IsFin(b) /\ a.n * b.d < b.n * a.d

AbsNum(a) == IF IsFin(a) THEN Rat(Abs(a.n), a.d) ELSE NaN

(***************************************************************************)
(* Texts of the percentage element.  '0%' is the literal written when the  *)
(* inputs are reset; toFixed(2) + '%' is h hundredths written with two     *)
(* decimals; NaN.toFixed(2) is 'NaN'.                                      *)
(***************************************************************************)
ZeroPercentText == [kind |-> "literal0", h |-> 0]
NaNPercentText == [kind |-> "nan", h |-> 0]

\* Number.prototype.toFixed(2): the integer number of hundredths nearest to
\* x, the larger one when two are equally near; the sign is kept apart.
toFixed2(x) ==
    IF ~IsFin(x) THEN NaNPercentText
    ELSE LET m == (200 * Abs(x.n) + x.d) \div (2 * x.d)
         IN  [kind |-> "fixed", h |-> IF x.n < 0 THEN -m ELSE m]

(***************************************************************************)
(* Sequences.                                                              *)
(***************************************************************************)
RECURSIVE SumSeq(_)
SumSeq(s) == IF s = <<>> THEN 0 ELSE Head(s) + SumSeq(Tail(s))

Range(s) == {s[i] : i \in DOMAIN s}

Put(f, key, v) == [x \in (DOMAIN f) \cup {key} |-> IF x = key THEN v ELSE f[x]]

(***************************************************************************)
(* Scoring engine.                                                         *)
(***************************************************************************)
\* displayCriteria: total of the nominal weights
totalWeights(criteria) == SumSeq([i \in DOMAIN criteria |-> criteria[i].weight])

\* a variant of adjustCriteria that never rescales: the nominal weights are used
adjustCriteriaNominal(criteria) ==
    [i \in DOMAIN criteria |->
        [metric |-> criteria[i].metric,
         weight |-> criteria[i].weight,
         invert |-> criteria[i].invert,
         hasDescriptors |-> criteria[i].hasDescriptors,
         scoreDescriptors |-> criteria[i].scoreDescriptors,
         adjustedWeight |-> Num(criteria[i].weight)]]

\* displayCriteria: the criteria with their adjusted weight
adjustCriteria(criteria) ==
    LET total == totalWeights(criteria)
    IN  [i \in DOMAIN criteria |->
            [metric |-> criteria[i].metric,
             weight |-> criteria[i].weight,
             invert |-> criteria[i].invert,
             hasDescriptors |-> criteria[i].hasDescriptors,
             scoreDescriptors |-> criteria[i].scoreDescriptors,
             adjustedWeight |->
                IF total # 100
                THEN Mul(Div(Num(criteria[i].weight), Num(total)), Num(100))
                ELSE Num(criteria[i].weight)]]

\* parseFloat(input.value) of a range input holding q quarter units
sliderNumber(q) == Rat(q, 4)

\* getScores: one {score, weight, index} per range input
getScores(inputs, adjusted) ==
    [i \in DOMAIN inputs |->
        [score |-> sliderNumber(inputs[i]),
         weight |-> adjusted[i].adjustedWeight,
         index |-> i - 1]]

\* a variant of calculateCriterionWeightedScore that inverts a score as 6 - score
calculateCriterionWeightedScoreSixMinus(criterion, score) ==
    IF criterion.invert
    THEN Div(Mul(Sub(Num(6), score), criterion.adjustedWeight), Num(4))
    ELSE Div(Mul(Sub(score, Num(1)), criterion.adjustedWeight), Num(4))

\* a variant of calculateCriterionWeightedScore that ignores invert
calculateCriterionWeightedScoreNoInvert(criterion, score) ==
    Div(Mul(Sub(score, Num(1)), criterion.adjustedWeight), Num(4))

\* calculateCriterionWeightedScore
calculateCriterionWeightedScore(criterion, score) ==
    IF criterion.invert
    THEN Div(Mul(Sub(Num(5), score), criterion.adjustedWeight), Num(4))
    ELSE Div(Mul(Sub(score, Num(1)), criterion.adjustedWeight), Num(4))

\* calculateWeightedScores
calculateWeightedScores(scores, adjusted) ==
    [i \in DOMAIN scores |->
        calculateCriterionWeightedScore(adjusted[scores[i].index + 1], scores[i].score)]

\* calculateTotalScore: reduce with +, from 0
RECURSIVE calculateTotalScore(_)
calculateTotalScore(weightedScores) ==
    IF weightedScores = <<>> THEN Num(0)
    ELSE Add(calculateTotalScore(SubSeq(weightedScores, 1, Len(weightedScores) - 1)),
             weightedScores[Len(weightedScores)])

\* calculateAndDisplayResults: (totalScore / 100) * 100
percentageLikelihoodOf(totalScore) == Mul(Div(totalScore, Num(100)), Num(100))

\* updateChart: the weighted score of every criterion, in the order of the inputs
chartWeightedScores(scores, adjusted) ==
    [i \in DOMAIN scores |-> calculateCriterionWeightedScore(adjusted[i], scores[i].score)]

\* a variant of chartSlices that appends the unlikelihood in either mode,
\* whatever its sign
chartSlicesAlwaysResidual(option, weighted, unlikelihood) ==
    Append(weighted, unlikelihood)

\* updateChart: the data of the pie chart in the selected mode
chartSlices(option, weighted, unlikelihood) ==
    IF option = "100" /\ Less(Num(0), unlikelihood)
    THEN Append(weighted, unlikelihood)
    ELSE weighted

unlikelihoodOf(weighted) == Sub(Num(100), calculateTotalScore(weighted))

chartDataOf(option, scores, adjusted) ==
    chartSlices(option, chartWeightedScores(scores, adjusted),
                unlikelihoodOf(chartWeightedScores(scores, adjusted)))

(***************************************************************************)
(* Descriptor lookup.  scoreDescriptors is the authored object: a sequence *)
(* of [key, text] in the order the keys were written, key in quarter       *)
(* units.                                                                  *)
(***************************************************************************)
\* Object.keys: the integer keys in ascending order, then the others in the
\* order they were written
RECURSIVE SortedInts(_)
SortedInts(S) ==
    IF S = {} THEN <<>>
    ELSE LET m == CHOOSE x \in S : \A y \in S : x <= y
         IN  <<m>> \o SortedInts(S \ {m})

isIntegerKey(key) == key % 4 = 0 /\ key >= 0

objectKeys(descriptors) ==
    LET written == [i \in DOMAIN descriptors |-> descriptors[i].key]
    IN  SortedInts({key \in Range(written) : isIntegerKey(key)})
        \o SelectSeq(written, LAMBDA key : ~isIntegerKey(key))

descriptorText(descriptors, key) ==
    LET hit == {i \in DOMAIN descriptors : descriptors[i].key = key}
    IN  IF hit = {} THEN "" ELSE descriptors[CHOOSE i \in hit : TRUE].text

RECURSIVE closestScore(_, _, _)
closestScore(keys, best, score) ==
    IF keys = <<>> THEN best
    ELSE closestScore(Tail(keys),
                      IF Less(AbsNum(Sub(score, Rat(Head(keys), 4))),
                              AbsNum(Sub(score, Rat(best, 4))))
                      THEN Head(keys) ELSE best,
                      score)

\* getScoreDescriptor: [exc, text]; exc when scores[0] is undefined and
\* closestScore.toString() raises a TypeError
getScoreDescriptor(criterion, score) ==
    IF ~criterion.hasDescriptors THEN [exc |-> FALSE, text |-> ""]
    ELSE LET keys == objectKeys(criterion.scoreDescriptors)
         IN  IF keys = <<>> THEN [exc |-> TRUE, text |-> ""]
             ELSE [exc |-> FALSE,
                   text |-> descriptorText(criterion.scoreDescriptors,
                                           closestScore(keys, keys[1], score))]

(***************************************************************************)
(* Text: names and slugs are sequences of one-character strings.           *)
(***************************************************************************)
UpperChars == <<"A","B","C","D","E","F","G","H","I","J","K","L","M",
                "N","O","P","Q","R","S","T","U","V","W","X","Y","Z">>
LowerChars == <<"a","b","c","d","e","f","g","h","i","j","k","l","m",
                "n","o","p","q","r","s","t","u","v","w","x","y","z">>
DigitChars == <<"0","1","2","3","4","5","6","7","8","9">>
WhitespaceChars == {" ", "\t", "\n"}

\* String.prototype.toLowerCase, one character
toLowerCase(c) ==
    IF \E i \in DOMAIN UpperChars : UpperChars[i] = c
    THEN LowerChars[CHOOSE i \in DOMAIN UpperChars : UpperChars[i] = c]
    ELSE c

\* the class [\w\-] of the second replace of generateSlug
isWordOrHyphen(c) ==
    c \in Range(UpperChars) \cup Range(LowerChars) \cup Range(DigitChars) \cup {"_", "-"}

\* a variant of hyphenateWhitespace that replaces every whitespace character
\* by a hyphen of its own
RECURSIVE hyphenateEachWhitespace(_, _)
hyphenateEachWhitespace(text, inRun) ==
    IF text = <<>> THEN <<>>
    ELSE IF Head(text) \in WhitespaceChars
         THEN <<"-">> \o hyphenateEachWhitespace(Tail(text), TRUE)
         ELSE <<Head(text)>> \o hyphenateEachWhitespace(Tail(text), FALSE)

\* replace(/[\s]+/g, '-'): every run of whitespace becomes one hyphen
RECURSIVE hyphenateWhitespace(_, _)
hyphenateWhitespace(text, inRun) ==
    IF text = <<>> THEN <<>>
    ELSE IF Head(text) \in WhitespaceChars
         THEN (IF inRun THEN <<>> ELSE <<"-">>) \o hyphenateWhitespace(Tail(text), TRUE)
         ELSE <<Head(text)>> \o hyphenateWhitespace(Tail(text), FALSE)

\* generateSlug
generateSlug(name) ==
    SelectSeq(hyphenateWhitespace([i \in DOMAIN name |-> toLowerCase(name[i])], FALSE),
              isWordOrHyphen)

\* pathname.split('/').filter(Boolean) of the path '/' + segments joined by '/'
pathSegmentsOf(segments) == SelectSeq(segments, LAMBDA seg : seg # <<>>)

\* Collation rank of a character for localeCompare: whitespace and
\* punctuation sort before digits, digits before letters, letters
\* alphabetically whatever their case.
charRank(c) ==
    LET l == toLowerCase(c)
    IN  IF \E i \in DOMAIN LowerChars : LowerChars[i] = l
        THEN 20 + (CHOOSE i \in DOMAIN LowerChars : LowerChars[i] = l)
        ELSE IF \E i \in DOMAIN DigitChars : DigitChars[i] = l
             THEN 5 + (CHOOSE i \in DOMAIN DigitChars : DigitChars[i] = l)
             ELSE IF l \in WhitespaceChars THEN 1 ELSE 2

RECURSIVE compareRanks(_, _)
compareRanks(a, b) ==
    IF a = <<>> THEN (IF b = <<>> THEN 0 ELSE -1)
    ELSE IF b = <<>> THEN 1
    ELSE IF charRank(Head(a)) # charRank(Head(b))
         THEN (IF charRank(Head(a)) < charRank(Head(b)) THEN -1 ELSE 1)
         ELSE compareRanks(Tail(a), Tail(b))

\* among texts equal but for case, lower case sorts first
RECURSIVE compareCase(_, _)
compareCase(a, b) ==
    IF a = <<>> \/ b = <<>> THEN 0
    ELSE IF Head(a) = Head(b) THEN compareCase(Tail(a), Tail(b))
    ELSE IF Head(a) = toLowerCase(Head(a)) THEN -1 ELSE 1

\* String.prototype.localeCompare
localeCompare(a, b) ==
    IF compareRanks(a, b) # 0 THEN compareRanks(a, b) ELSE compareCase(a, b)

\* the comparator of displayCategoryCards: weight ascending, then name
categoryBefore(a, b) ==
    IF a.weight # b.weight THEN a.weight < b.weight ELSE localeCompare(a.name, b.name) < 0

\* Array.prototype.sort with that comparator (a stable sort)
RECURSIVE insertCategory(_, _)
insertCategory(sorted, c) ==
    IF sorted = <<>> THEN <<c>>
    ELSE IF categoryBefore(c, Head(sorted)) THEN <<c>> \o sorted
    ELSE <<Head(sorted)>> \o insertCategory(Tail(sorted), c)

RECURSIVE sortCategories(_)
sortCategories(cats) ==
    IF cats = <<>> THEN <<>>
    ELSE insertCategory(sortCategories(SubSeq(cats, 1, Len(cats) - 1)), cats[Len(cats)])

(***************************************************************************)
(* The entity store.  The item 'entities' of localStorage is absent, holds *)
(* text that JSON.parse rejects, or holds the text of an object            *)
(*   { categoryName: { entityName: { categoryName: { profileName:          *)
(*       { scores, percentageLikelihood } }, image } } }.                  *)
(* The object of one category keeps the order in which its entity names    *)
(* were added (keys), which is the order Object.keys returns them in.      *)
(***************************************************************************)
EmptyMap == [x \in {} |-> 0]
EmptyObject == [keys |-> <<>>, val |-> EmptyMap]
EmptyEntity == [cats |-> EmptyMap, image |-> ""]

StorageAbsent == [kind |-> "absent", data |-> EmptyMap]
StorageCorrupt == [kind |-> "corrupt", data |-> EmptyMap]

\* Names of Object.prototype, which every parsed object inherits
ObjectPrototypeKeys == {"constructor", "toString", "valueOf", "hasOwnProperty"}

\* entities[name] is truthy: an own entity (an object), or an inherited member
hasTruthyProperty(entities, name) ==
    name \in Range(entities.keys) \/ name \in ObjectPrototypeKeys

\* JSON.stringify of a number: NaN is written as null
jsonNumber(x) == IF IsFin(x) THEN x ELSE Null

jsonResult(r) ==
    [scores |-> [i \in DOMAIN r.scores |->
                    [score |-> jsonNumber(r.scores[i].score),
                     weight |-> jsonNumber(r.scores[i].weight),
                     index |-> r.scores[i].index]],
     percentageLikelihood |-> r.percentageLikelihood]

jsonEntity(e) ==
    [cats |-> [c \in DOMAIN e.cats |->
                  [p \in DOMAIN e.cats[c] |-> jsonResult(e.cats[c][p])]],
     image |-> e.image]

\* JSON.parse(JSON.stringify(entitiesData))
jsonRoundTrip(data) ==
    [c \in DOMAIN data |->
        [keys |-> data[c].keys,
         val |-> [e \in DOMAIN data[c].val |-> jsonEntity(data[c].val[e])]]]

\* entities[name] = value: a new key goes last, an old one keeps its place
setProperty(entities, name, value) ==
    [keys |-> IF name \in Range(entities.keys) THEN entities.keys
              ELSE Append(entities.keys, name),
     val |-> Put(entities.val, name, value)]

\* a variant of deleteProperty that empties the record and keeps the name
deletePropertyKeepingName(entities, name) ==
    [keys |-> entities.keys,
     val |-> [e \in DOMAIN entities.val |->
                IF e = name THEN EmptyEntity ELSE entities.val[e]]]

\* delete entities[name]
deleteProperty(entities, name) ==
    [keys |-> SelectSeq(entities.keys, LAMBDA k : k # name),
     val |-> [e \in (DOMAIN entities.val) \ {name} |-> entities.val[e]]]

\* a variant of setSliderValue for range inputs whose step is 1
setSliderValueWholeStep(x) ==
    IF ~IsFin(x) THEN 12
    ELSE LET v == (2 * x.n + x.d) \div (2 * x.d)
         IN  IF v < 1 THEN 4 ELSE IF v > 5 THEN 20 ELSE 4 * v

\* the value an <input type=range min=1 max=5 step=0.25> keeps when its
\* value is set to the text of x: the nearest step within the range, the
\* middle of the range when the text is no number
setSliderValue(x) ==
    IF ~IsFin(x) THEN 12
    ELSE LET q == (8 * x.n + x.d) \div (2 * x.d)
         IN  IF q < 4 THEN 4 ELSE IF q > 20 THEN 20 ELSE q

(***************************************************************************)
(* Handlers, as operators on the state record.  A handler that goes on     *)
(* with the state another call left takes that state as its argument.      *)
(***************************************************************************)
throw(s) == [s EXCEPT !.exc = TRUE]

alert(s, message) == [s EXCEPT !.alerts = Append(@, message)]

\* a catch block that reports the exception with alert(message)
catchAndAlert(s, message) ==
    IF s.exc THEN alert([s EXCEPT !.exc = FALSE], message) ELSE s

\* history.pushState / history.replaceState: the address bar; pushState
\* drops the entries after the current one and adds an entry to the session
\* history, replaceState rewrites the current one
pushState(s, segments) ==
    [s EXCEPT !.pathname = pathSegmentsOf(segments),
              !.history = Append(SubSeq(@, 1, s.cursor), pathSegmentsOf(segments)),
              !.cursor = @ + 1,
              !.pushed = @ + 1]
replaceState(s, segments) ==
    [s EXCEPT !.pathname = pathSegmentsOf(segments),
              !.history[s.cursor] = pathSegmentsOf(segments)]

hasSelectedProfile(s) ==
    /\ s.selectedCategoryIndex + 1 \in DOMAIN s.categories
    /\ s.selectedProfileIndex + 1 \in
           DOMAIN s.categories[s.selectedCategoryIndex + 1].profiles

selectedCategoryOf(s) == s.categories[s.selectedCategoryIndex + 1]
selectedProfileOf(s) == selectedCategoryOf(s).profiles[s.selectedProfileIndex + 1]

\* getEntitiesFromLocalStorage: [exc, val]
getEntitiesFromLocalStorage(s) ==
    IF s.storage.kind = "corrupt" THEN [exc |-> TRUE, val |-> EmptyObject]
    ELSE LET categoryName == selectedCategoryOf(s).name
         IN  [exc |-> FALSE,
              val |-> IF categoryName \in DOMAIN s.storage.data
                      THEN s.storage.data[categoryName] ELSE EmptyObject]

\* a variant of saveEntitiesToLocalStorage that writes a store holding the
\* selected category alone
saveEntitiesInFreshStore(s, entities) ==
    IF s.exc THEN s
    ELSE IF s.storage.kind = "corrupt" THEN throw(s)
    ELSE [s EXCEPT !.storage =
            [kind |-> "json",
             data |-> jsonRoundTrip(Put(EmptyMap, selectedCategoryOf(s).name, entities))]]

\* saveEntitiesToLocalStorage
saveEntitiesToLocalStorage(s, entities) ==
    IF s.exc THEN s
    ELSE IF s.storage.kind = "corrupt" THEN throw(s)
    ELSE [s EXCEPT !.storage =
            [kind |-> "json",
             data |-> jsonRoundTrip(Put(s.storage.data, selectedCategoryOf(s).name,
                                        entities))]]

\* populateInvestorSelect
populateInvestorSelect(s, selectEntityName) ==
    IF s.exc THEN s
    ELSE LET got == getEntitiesFromLocalStorage(s)
             names == got.val.keys
         IN  IF got.exc THEN throw(s)
             ELSE [s EXCEPT
                     !.investorOptions = names,
                     !.investorValue =
                        IF selectEntityName # ""
                        THEN (IF selectEntityName \in Range(names)
                              THEN selectEntityName ELSE "")
                        ELSE (IF names = <<>> THEN "" ELSE names[1])]

\* loadInvestorList: one item per entity, with its count of saved profiles
profilesCount(entity) == Cardinality(DOMAIN entity.cats)

loadInvestorList(s) ==
    IF s.exc THEN s
    ELSE LET got == getEntitiesFromLocalStorage(s)
         IN  IF got.exc THEN throw([s EXCEPT !.investorList = <<>>])
             ELSE [s EXCEPT !.investorList =
                     [i \in DOMAIN got.val.keys |->
                        [name |-> got.val.keys[i],
                         profilesCount |-> profilesCount(got.val.val[got.val.keys[i]]),
                         image |-> got.val.val[got.val.keys[i]].image]]]

\* loadEntities
loadEntities(s) == loadInvestorList(populateInvestorSelect(s, ""))

\* the descriptor cells of the rows, recomputed from the range inputs
descriptorsOf(inputs, adjusted) ==
    [i \in DOMAIN inputs |-> getScoreDescriptor(adjusted[i], sliderNumber(inputs[i])).text]

\* loadSavedInputs, a result being saved: the inputs take the saved scores
\* one by one; savedScores[index] is undefined past the last saved score,
\* and reading its score raises a TypeError
restoreSavedInputs(s, savedData) ==
    LET count == IF Len(savedData.scores) < Len(s.sliders)
                 THEN Len(savedData.scores) ELSE Len(s.sliders)
        restored == [i \in 1 .. count |-> setSliderValue(savedData.scores[i].score)]
    IN  IF count < Len(s.sliders)
        THEN throw([s EXCEPT
                !.sliders = restored \o SubSeq(s.sliders, count + 1, Len(s.sliders)),
                !.descriptorTexts =
                    descriptorsOf(restored, s.adjustedCriteria)
                    \o SubSeq(s.descriptorTexts, count + 1, Len(s.sliders))])
        ELSE [s EXCEPT
                !.sliders = restored,
                !.descriptorTexts = descriptorsOf(restored, s.adjustedCriteria),
                !.percentageText = savedData.percentageLikelihood]

\* a variant of resetInputs that leaves the percentage on the page
resetInputsKeepingPercentage(s) ==
    [s EXCEPT
        !.sliders = [i \in DOMAIN s.sliders |-> 4],
        !.descriptorTexts =
            descriptorsOf([i \in DOMAIN s.sliders |-> 4], s.adjustedCriteria)]

\* loadSavedInputs, no result being saved: the inputs and the result are reset
resetInputs(s) ==
    [s EXCEPT
        !.sliders = [i \in DOMAIN s.sliders |-> 4],
        !.descriptorTexts =
            descriptorsOf([i \in DOMAIN s.sliders |-> 4], s.adjustedCriteria),
        !.percentageText = ZeroPercentText]

\* the picture of the entity is shown, or hidden when it has none
showEntityImage(s, image) == IF s.exc THEN s ELSE [s EXCEPT !.investorImage = image]

\* loadSavedInputs
loadSavedInputs(s) ==
    IF s.exc \/ s.investorValue = "" THEN s
    ELSE IF ~hasSelectedProfile(s) THEN throw(s)
    ELSE
    LET categoryName == selectedCategoryOf(s).name
        profileName == selectedProfileOf(s).name
        got == getEntitiesFromLocalStorage(s)
        own == s.investorValue \in Range(got.val.keys)
        entityData == IF own THEN got.val.val[s.investorValue] ELSE EmptyEntity
        saved == /\ categoryName \in DOMAIN entityData.cats
                 /\ profileName \in DOMAIN entityData.cats[categoryName]
    IN  IF got.exc THEN throw(s)
        ELSE showEntityImage(
                IF saved
                THEN restoreSavedInputs(s, entityData.cats[categoryName][profileName])
                ELSE resetInputs(s),
                entityData.image)

\* displayCriteria: the rows are built one by one; building stops at the
\* first criterion whose descriptor lookup throws
RECURSIVE builtRows(_, _)
builtRows(adjusted, i) ==
    IF i > Len(adjusted) \/ getScoreDescriptor(adjusted[i], sliderNumber(4)).exc THEN i - 1
    ELSE builtRows(adjusted, i + 1)

\* displayCriteria, from the table rows on
buildCriteriaRows(s) ==
    LET rows == builtRows(s.adjustedCriteria, 1)
        inputs == [i \in 1 .. rows |-> 4]
    IN  IF rows < Len(s.adjustedCriteria)
        THEN throw([s EXCEPT
                !.sliders = inputs,
                !.descriptorTexts = descriptorsOf(inputs, s.adjustedCriteria)])
        ELSE [s EXCEPT
                !.sliders = inputs,
                !.descriptorTexts = descriptorsOf(inputs, s.adjustedCriteria),
                !.percentageText = ZeroPercentText]

\* displayCriteria
displayCriteria(s, profile) ==
    IF s.exc THEN s
    ELSE loadSavedInputs(
            buildCriteriaRows(
                [s EXCEPT
                    !.weightWarning = (totalWeights(profile.criteria) # 100),
                    !.adjustedCriteria = adjustCriteria(profile.criteria)]))

\* a variant of saveInputsAndResults that writes a record holding the new
\* result alone in place of the record of the entity
saveInputsAndResultsReplacingRecord(s) ==
    IF s.exc \/ s.investorValue = "" THEN s
    ELSE IF ~hasSelectedProfile(s) THEN throw(s)
    ELSE
    LET result == [scores |-> getScores(s.sliders, s.adjustedCriteria),
                   percentageLikelihood |-> s.percentageText]
        got == getEntitiesFromLocalStorage(s)
        entity2 == [cats |-> Put(EmptyMap, selectedCategoryOf(s).name,
                                 Put(EmptyMap, selectedProfileOf(s).name, result)),
                    image |-> ""]
    IN  IF got.exc THEN throw(s)
        ELSE loadInvestorList(
                saveEntitiesToLocalStorage(s, setProperty(got.val, s.investorValue, entity2)))

\* saveInputsAndResults
saveInputsAndResults(s) ==
    IF s.exc \/ s.investorValue = "" THEN s
    ELSE IF ~hasSelectedProfile(s) THEN throw(s)
    ELSE
    LET entityName == s.investorValue
        categoryName == selectedCategoryOf(s).name
        profileName == selectedProfileOf(s).name
        result == [scores |-> getScores(s.sliders, s.adjustedCriteria),
                   percentageLikelihood |-> s.percentageText]
        got == getEntitiesFromLocalStorage(s)
        entity == IF entityName \in Range(got.val.keys)
                  THEN got.val.val[entityName] ELSE EmptyEntity
        byProfile == IF categoryName \in DOMAIN entity.cats
                     THEN entity.cats[categoryName] ELSE EmptyMap
        entity2 == [entity EXCEPT
                      !.cats = Put(entity.cats, categoryName,
                                   Put(byProfile, profileName, result))]
    IN  IF got.exc THEN throw(s)
        ELSE loadInvestorList(
                saveEntitiesToLocalStorage(s, setProperty(got.val, entityName, entity2)))

\* a variant of calculateAndDisplay that saves before it displays the result
calculateAndDisplaySavingFirst(s) ==
    LET saved == saveInputsAndResults(s)
    IN  [saved EXCEPT
           !.percentageText =
              toFixed2(percentageLikelihoodOf(
                  calculateTotalScore(
                      calculateWeightedScores(getScores(s.sliders, s.adjustedCriteria),
                                              s.adjustedCriteria)))),
           !.chartData = chartDataOf(s.pieChartOption,
                                     getScores(s.sliders, s.adjustedCriteria),
                                     s.adjustedCriteria)]

\* the body of the try block of calculateAndDisplayResults
calculateAndDisplay(s) ==
    saveInputsAndResults(
        [s EXCEPT
           !.percentageText =
              toFixed2(percentageLikelihoodOf(
                  calculateTotalScore(
                      calculateWeightedScores(getScores(s.sliders, s.adjustedCriteria),
                                              s.adjustedCriteria)))),
           !.chartData = chartDataOf(s.pieChartOption,
                                     getScores(s.sliders, s.adjustedCriteria),
                                     s.adjustedCriteria)])

\* a variant of calculateAndDisplayResults without its try and catch
calculateAndDisplayResultsUncaught(s) ==
    IF s.exc THEN s ELSE calculateAndDisplay(s)

\* calculateAndDisplayResults: an exception of the body is caught and reported
calculateAndDisplayResults(s) ==
    IF s.exc THEN s ELSE catchAndAlert(calculateAndDisplay(s), "CalculationError")

\* handleProfileCardClick
handleProfileCardClick(s, index) ==
    IF s.exc THEN s
    ELSE
    LET s1 == [s EXCEPT !.selectedProfileIndex = index]
    IN  IF ~hasSelectedProfile(s1) THEN throw(s1)
        ELSE calculateAndDisplayResults(
                loadSavedInputs(
                    displayCriteria(
                        pushState(s1, <<selectedCategoryOf(s1).slug,
                                        generateSlug(selectedProfileOf(s1).name)>>),
                        selectedProfileOf(s1))))

\* initInvestorManagement
initInvestorManagement(s) ==
    IF s.exc THEN s
    ELSE loadEntities([s EXCEPT !.mgmtListeners = @ + 1])

\* handleCategoryCardClick
\* a variant of handleCategoryCardClick that selects, in the new category,
\* the profile at the index left over from the previous category
handleCategoryCardClickKeepingProfile(s, index) ==
    IF s.exc THEN s
    ELSE
    LET s1 == [s EXCEPT !.selectedCategoryIndex = index]
    IN  IF index + 1 \notin DOMAIN s.categories THEN throw(s1)
        ELSE handleProfileCardClick(
                initInvestorManagement(pushState(s1, <<selectedCategoryOf(s1).slug>>)),
                s.selectedProfileIndex)

handleCategoryCardClick(s, index) ==
    IF s.exc THEN s
    ELSE
    LET s1 == [s EXCEPT !.selectedCategoryIndex = index]
    IN  IF index + 1 \notin DOMAIN s.categories THEN throw(s1)
        ELSE handleProfileCardClick(
                initInvestorManagement(pushState(s1, <<selectedCategoryOf(s1).slug>>)),
                0)

\* selectHighestOrderedCategory, its last statement
replaceStateOfFirstCategory(s) ==
    IF s.exc THEN s ELSE replaceState(s, <<s.categories[1].slug>>)

\* selectHighestOrderedCategory
selectHighestOrderedCategory(s) ==
    replaceStateOfFirstCategory(handleProfileCardClick(handleCategoryCardClick(s, 0), 0))

\* selectRandomCategoryAndProfile, its last statement
pushStateOfProfile(s, categoryIndex, profileIndex) ==
    IF s.exc THEN s
    ELSE pushState(s, <<s.categories[categoryIndex + 1].slug,
                        generateSlug(s.categories[categoryIndex + 1]
                                        .profiles[profileIndex + 1].name)>>)

\* selectRandomCategoryAndProfile, for the two values Math.random() gave
selectRandomCategoryAndProfile(s, randomCategoryIndex, randomProfileIndex) ==
    pushStateOfProfile(
        handleProfileCardClick(handleCategoryCardClick(s, randomCategoryIndex),
                               randomProfileIndex),
        randomCategoryIndex, randomProfileIndex)

\* findIndex: the first index whose element passes, or -1
firstIndex(S) == IF S = {} THEN -1 ELSE (CHOOSE i \in S : \A j \in S : i <= j) - 1

\* an alert between two calls, shown when the first one returned
alertIf(s, shown, message) == IF s.exc \/ ~shown THEN s ELSE alert(s, message)

\* handleSlugNavigation, its first statements: the pathname is split
splitPathname(s) == [s EXCEPT !.pathSegments = s.pathname]

\* handleSlugNavigation
handleSlugNavigation(s, randomCategoryIndex, randomProfileIndex) ==
    IF s.exc THEN s
    ELSE
    LET segments == s.pathname
        categoryIndex == firstIndex({i \in DOMAIN s.categories :
                                        s.categories[i].slug = segments[1]})
        category == s.categories[categoryIndex + 1]
        profileIndex == firstIndex({i \in DOMAIN category.profiles :
                                       generateSlug(category.profiles[i].name)
                                           = segments[2]})
    IN  IF Len(segments) > 0 /\ segments[1] = <<"r","a","n","d","o","m">>
        THEN selectRandomCategoryAndProfile(splitPathname(s), randomCategoryIndex,
                                            randomProfileIndex)
        ELSE IF Len(segments) > 0 /\ categoryIndex # -1
        THEN handleProfileCardClick(
                alertIf(handleCategoryCardClick(splitPathname(s), categoryIndex),
                        Len(segments) > 1 /\ profileIndex = -1, "ProfileNotFound"),
                IF Len(segments) > 1 /\ profileIndex # -1 THEN profileIndex ELSE 0)
        ELSE selectHighestOrderedCategory(
                alertIf(splitPathname(s), Len(segments) > 0, "CategoryNotFound"))

\* init, the end of its promise chain: the popstate listener is registered
\* when handleSlugNavigation returned, an exception goes to the catch
initialised(s) ==
    IF s.exc
    THEN alert([s EXCEPT !.exc = FALSE, !.loaded = "failed"], "InitFailed")
    ELSE [s EXCEPT !.loaded = "ready", !.popstateWired = TRUE]

\* init: the steps that follow the fetch of the catalog
initLoaded(s, data, randomCategoryIndex, randomProfileIndex) ==
    initialised(handleSlugNavigation([s EXCEPT !.categories = sortCategories(data)],
                                     randomCategoryIndex, randomProfileIndex))

\* handleNewInvestor, for the text the prompt returned ("" when cancelled)
handleNewInvestor(s, entityName) ==
    IF entityName = "" THEN s
    ELSE LET got == getEntitiesFromLocalStorage(s)
         IN  IF got.exc THEN throw(s)
             ELSE IF hasTruthyProperty(got.val, entityName) THEN alert(s, "AlreadyExists")
             ELSE loadInvestorList(
                     populateInvestorSelect(
                         saveEntitiesToLocalStorage(
                             s, setProperty(got.val, entityName, EmptyEntity)),
                         entityName))

\* handleInvestorChange, after loadSavedInputs: the picture of the entity
showSelectedEntityImage(s) ==
    IF s.exc THEN s
    ELSE LET got == getEntitiesFromLocalStorage(s)
         IN  IF got.exc THEN throw(s)
             ELSE [s EXCEPT !.investorImage =
                     IF s.investorValue \in Range(got.val.keys)
                     THEN got.val.val[s.investorValue].image ELSE ""]

\* handleInvestorChange
handleInvestorChange(s) == showSelectedEntityImage(loadSavedInputs(s))

\* handleDeleteInvestor, after the lists are refreshed: the inputs are reset
resetAfterDelete(s) ==
    IF s.exc THEN s
    ELSE IF ~hasSelectedProfile(s) THEN throw(s)
    ELSE showEntityImage(displayCriteria(s, selectedProfileOf(s)), "")

\* handleDeleteInvestor, for the answer given to confirm()
handleDeleteInvestor(s, confirmed) ==
    IF s.investorValue = "" THEN alert(s, "SelectToDelete")
    ELSE IF ~confirmed THEN s
    ELSE LET got == getEntitiesFromLocalStorage(s)
         IN  IF got.exc THEN throw(s)
             ELSE resetAfterDelete(
                     loadInvestorList(
                         populateInvestorSelect(
                             saveEntitiesToLocalStorage(
                                 s, deleteProperty(got.val, s.investorValue)),
                             "")))

\* handleInvestorListItemClick
handleInvestorListItemClick(s, entityName) ==
    LET got == getEntitiesFromLocalStorage(s)
    IN  IF got.exc THEN throw([s EXCEPT !.currentEditingInvestorName = entityName])
        ELSE [s EXCEPT
                !.currentEditingInvestorName = entityName,
                !.modalPreview = IF entityName \in Range(got.val.keys)
                                 THEN got.val.val[entityName].image ELSE "",
                !.modalOpen = TRUE]

\* handleInvestorEditFormSubmit, after the list is refreshed
closeEditModal(s) ==
    IF s.exc THEN s
    ELSE [s EXCEPT
            !.investorImage = IF s.investorValue = s.currentEditingInvestorName
                              THEN s.modalPreview ELSE @,
            !.modalOpen = FALSE]

\* handleInvestorEditFormSubmit
handleInvestorEditFormSubmit(s) ==
    IF s.exc THEN s
    ELSE
    LET got == getEntitiesFromLocalStorage(s)
        name == s.currentEditingInvestorName
        entityData == IF name \in Range(got.val.keys) THEN got.val.val[name]
                      ELSE EmptyEntity
        entities == IF s.modalPreview # ""
                    THEN setProperty(got.val, name,
                                     [entityData EXCEPT !.image = s.modalPreview])
                    ELSE got.val
    IN  IF got.exc THEN throw(s)
        ELSE closeEditModal(loadInvestorList(saveEntitiesToLocalStorage(s, entities)))

(***************************************************************************)
(* Catalogs.                                                               *)
(***************************************************************************)
Criterion(metric, weight, invert) ==
    [metric |-> metric, weight |-> weight, invert |-> invert,
     hasDescriptors |-> FALSE, scoreDescriptors |-> <<>>]

Described(metric, weight, invert, descriptors) ==
    [metric |-> metric, weight |-> weight, invert |-> invert,
     hasDescriptors |-> TRUE, scoreDescriptors |-> descriptors]

LowMidHigh == <<[key |-> 4, text |-> "low"], [key |-> 12, text |-> "mid"],
                [key |-> 20, text |-> "high"]>>

InvestName == <<"I","n","v","e","s","t">>
HealthName == <<"H","e","a","l","t","h">>
ProAName == <<"P","r","o"," ","A">>
RAndDName == <<"R"," ","&"," ","D">>
VitalsName == <<"V","i","t","a","l","s">>

\* the catalog of the application model, in the order it is authored
AppCatalog ==
    <<[name |-> InvestName, slug |-> <<"i","n","v","e","s","t">>, weight |-> 1,
       profiles |->
          <<[name |-> ProAName,
             criteria |-> <<Described("Team", 60, FALSE, LowMidHigh),
                            Criterion("Risk", 40, TRUE)>>],
            [name |-> RAndDName,
             criteria |-> <<Criterion("Spend", 80, FALSE)>>]>>],
      [name |-> HealthName, slug |-> <<"h","e","a","l","t","h">>, weight |-> 1,
       profiles |->
          <<[name |-> VitalsName,
             criteria |-> <<Criterion("Pulse", 100, FALSE)>>]>>]>>

\* the same catalog with other sort weights given to its two categories
WeightedCatalog(investWeight, healthWeight) ==
    <<[AppCatalog[1] EXCEPT !.weight = investWeight],
      [AppCatalog[2] EXCEPT !.weight = healthWeight]>>

RouterCatalogs == {WeightedCatalog(1, 1), WeightedCatalog(1, 2), WeightedCatalog(2, 1)}

Random == <<"r","a","n","d","o","m">>

\* the paths the browser is opened at or returns to
AppPaths ==
    {<<>>, <<Random>>, <<AppCatalog[1].slug>>, <<AppCatalog[2].slug>>,
     <<AppCatalog[1].slug, generateSlug(RAndDName)>>,
     <<AppCatalog[1].slug, <<"n","o","n","e">>>>, <<<<"n","o","n","e">>>>}

\* what an earlier session left in localStorage: under Invest, Acme with a
\* result saved for Pro A at the scores 5 and 2.25, and Beta without any
SavedSliders == <<20, 9>>

SavedResult ==
    LET adjusted == adjustCriteria(AppCatalog[1].profiles[1].criteria)
        scores == getScores(SavedSliders, adjusted)
    IN  [scores |-> scores,
         percentageLikelihood |->
            toFixed2(percentageLikelihoodOf(
                calculateTotalScore(calculateWeightedScores(scores, adjusted))))]

StorageSaved ==
    [kind |-> "json",
     data |-> (InvestName :>
                 [keys |-> <<"Acme", "Beta">>,
                  val |-> ("Acme" :> [cats |-> (InvestName :> (ProAName :> SavedResult)),
                                      image |-> ""])
                          @@ ("Beta" :> EmptyEntity)])]

\* what the user types at the prompt for a name ("" stands for Cancel)
EntityNames == {"Acme", "Beta", "constructor"}

\* data URLs of the pictures the user uploads
Images == {"data:image"}

\* slider positions the user moves to, in quarter units
AppScores == {4, 9, 20}
EngineScores == {4, 12, 20}
DescriptorScores == 4 .. 20

\* catalogs of one category holding one profile
SingleProfileCatalog(criteria) ==
    <<[name |-> <<"E">>, slug |-> <<"e">>, weight |-> 1,
       profiles |-> <<[name |-> <<"P">>, criteria |-> criteria]>>]>>

EngineWeights == {0, 40, 50}

RECURSIVE CriteriaLists(_)
CriteriaLists(n) ==
    IF n = 0 THEN {<<>>}
    ELSE CriteriaLists(n - 1) \cup
         {Append(c, Criterion("m", w, inv)) :
            c \in {l \in CriteriaLists(n - 1) : Len(l) = n - 1},
            w \in EngineWeights, inv \in BOOLEAN}

ScenarioCriteria ==
    {<<Criterion("a", 50, FALSE), Criterion("b", 30, FALSE), Criterion("c", 20, inv)>> :
        inv \in BOOLEAN}

EngineCatalogs ==
    {SingleProfileCatalog(c) : c \in CriteriaLists(MaxCriteria) \cup ScenarioCriteria}

\* descriptor objects as authored: none, empty, ascending integer keys,
\* integer keys written in descending order, a fractional key written first
DescriptorObjects ==
    {<<>>, LowMidHigh,
     <<[key |-> 20, text |-> "high"], [key |-> 4, text |-> "low"]>>,
     <<[key |-> 10, text |-> "two and a half"], [key |-> 8, text |-> "two"],
       [key |-> 12, text |-> "three"]>>,
     <<[key |-> 6, text |-> "a"], [key |-> 10, text |-> "b"]>>,
     <<[key |-> 10, text |-> "b"], [key |-> 6, text |-> "a"]>>}

\* names of profiles: the texts of 1 to n characters over an upper
\* case letter, a lower case letter, a digit, two kinds of whitespace, the
\* underscore, the hyphen and a punctuation mark, and one name of the catalog
RECURSIVE SlugNames(_)
SlugNames(n) ==
    IF n <= 1
    THEN {<<"G","e","n","e","r","a","l"," ","I","n","v","e","s","t","o","r"," ",
            "E","n","g","a","g","e","m","e","n","t">>}
         \cup {<<c>> : c \in {"G", "e", "3", " ", "\t", "_", "-", "&"}}
    ELSE SlugNames(n - 1) \cup
         {Append(name, c) : name \in {x \in SlugNames(n - 1) : Len(x) = n - 1},
                            c \in {"G", "e", "3", " ", "\t", "_", "-", "&"}}

DescriptorCatalogs ==
    {SingleProfileCatalog(<<Criterion("m", 100, FALSE)>>)} \cup
    {SingleProfileCatalog(<<Described("m", 100, FALSE, d)>>) : d \in DescriptorObjects}

(***************************************************************************)
(* State record of the handlers.                                           *)
(***************************************************************************)
Cur ==
    [loaded |-> loaded, categories |-> categories,
     selectedCategoryIndex |-> selectedCategoryIndex,
     selectedProfileIndex |-> selectedProfileIndex,
     adjustedCriteria |-> adjustedCriteria, sliders |-> sliders,
     descriptorTexts |-> descriptorTexts, percentageText |-> percentageText,
     weightWarning |-> weightWarning, pieChartOption |-> pieChartOption,
     chartData |-> chartData, investorOptions |-> investorOptions,
     investorValue |-> investorValue, investorImage |-> investorImage,
     investorList |-> investorList, storage |-> storage,
     currentEditingInvestorName |-> currentEditingInvestorName,
     modalPreview |-> modalPreview, modalOpen |-> modalOpen, pathname |-> pathname,
     history |-> history, cursor |-> cursor, pushed |-> 0,
     pathSegments |-> <<>>,
     mgmtListeners |-> mgmtListeners, popstateWired |-> popstateWired,
     alerts |-> <<>>, thrown |-> FALSE, exc |-> FALSE]

\* the state a listener leaves to the next one: an exception of a listener
\* is reported and does not stop the dispatch
afterListener(s) == [s EXCEPT !.exc = FALSE, !.thrown = (@ \/ s.exc)]

CommitInput(s0, event, input) ==
    \E s \in {afterListener(s0)} :
        /\ loaded' = s.loaded
        /\ categories' = s.categories
        /\ selectedCategoryIndex' = s.selectedCategoryIndex
        /\ selectedProfileIndex' = s.selectedProfileIndex
        /\ adjustedCriteria' = s.adjustedCriteria
        /\ sliders' = s.sliders
        /\ descriptorTexts' = s.descriptorTexts
        /\ percentageText' = s.percentageText
        /\ weightWarning' = s.weightWarning
        /\ pieChartOption' = s.pieChartOption
        /\ chartData' = s.chartData
        /\ investorOptions' = s.investorOptions
        /\ investorValue' = s.investorValue
        /\ investorImage' = s.investorImage
        /\ investorList' = s.investorList
        /\ storage' = s.storage
        /\ currentEditingInvestorName' = s.currentEditingInvestorName
        /\ modalPreview' = s.modalPreview
        /\ modalOpen' = s.modalOpen
        /\ pathname' = s.pathname
        /\ history' = s.history
        /\ cursor' = s.cursor
        /\ pushed' = s.pushed
        /\ pathSegments' = s.pathSegments
        /\ mgmtListeners' = s.mgmtListeners
        /\ popstateWired' = s.popstateWired
        /\ alerts' = s.alerts
        /\ thrown' = s.thrown
        /\ lastEvent' = [name |-> event, input |-> input]
        /\ UNCHANGED catalog

Commit(s0, event) == CommitInput(s0, event, "")

NoPending == [target |-> "none", left |-> 0]

\* a synchronous event runs every registered listener in turn
RECURSIVE dispatchInvestorChange(_, _)
dispatchInvestorChange(s, n) ==
    IF n = 0 THEN s
    ELSE dispatchInvestorChange(afterListener(handleInvestorChange(s)), n - 1)

RECURSIVE dispatchEditFormSubmit(_, _)
dispatchEditFormSubmit(s, n) ==
    IF n = 0 THEN s
    ELSE dispatchEditFormSubmit(afterListener(handleInvestorEditFormSubmit(s)), n - 1)

RECURSIVE dispatchPieChartOption(_, _)
dispatchPieChartOption(s, n) ==
    IF n = 0 THEN s
    ELSE dispatchPieChartOption(afterListener(calculateAndDisplayResults(s)), n - 1)

\* the listeners of the pieChartOption radios are registered at the end of
\* initInvestorManagement, after loadEntities returned
pieListeners == IF storage.kind = "corrupt" THEN 0 ELSE mgmtListeners

\* the values Math.random() can lead to, when the path asks for them
randomChoices(cats, path) ==
    IF path # <<>> /\ path[1] = Random /\ cats # <<>>
    THEN UNION {{<<c - 1, p - 1>> : p \in DOMAIN cats[c].profiles} : c \in DOMAIN cats}
    ELSE {<<0, 0>>}

(***************************************************************************)
(* Initial states.                                                         *)
(***************************************************************************)
InitWith(data, path, stored) ==
    /\ catalog = data
    /\ loaded = "loading"
    /\ categories = <<>>
    /\ selectedCategoryIndex = 0
    /\ selectedProfileIndex = 0
    /\ adjustedCriteria = <<>>
    /\ sliders = <<>>
    /\ descriptorTexts = <<>>
    /\ percentageText = ZeroPercentText
    /\ weightWarning = FALSE
    /\ pieChartOption = "100"
    /\ chartData = <<>>
    /\ investorOptions = <<>>
    /\ investorValue = ""
    /\ investorImage = ""
    /\ investorList = <<>>
    /\ storage = stored
    /\ currentEditingInvestorName = ""
    /\ modalPreview = ""
    /\ modalOpen = FALSE
    /\ pathname = path
    /\ history = <<path>>
    /\ cursor = 1
    /\ pushed = 0
    /\ pathSegments = <<>>
    /\ mgmtListeners = 0
    /\ popstateWired = FALSE
    /\ pending = NoPending
    /\ alerts = <<>>
    /\ thrown = FALSE
    /\ lastEvent = [name |-> "load", input |-> ""]
    /\ events = 0

Init ==
    \E path \in AppPaths, stored \in {StorageAbsent, StorageCorrupt, StorageSaved} :
        InitWith(AppCatalog, path, stored)

InitRouter ==
    \E data \in RouterCatalogs, path \in AppPaths,
       stored \in {StorageAbsent, StorageCorrupt, StorageSaved} :
        InitWith(data, path, stored)

\* a session in which an entity is selected from the start
InitFault ==
    \E path \in {<<AppCatalog[1].slug>>, <<AppCatalog[1].slug, generateSlug(RAndDName)>>} :
        InitWith(AppCatalog, path, StorageSaved)

\* a catalog of one profile, of any of the names
InitSlug ==
    \E name \in SlugNames(MaxNameLen) :
        InitWith([SingleProfileCatalog(<<Criterion("m", 100, FALSE)>>)
                     EXCEPT ![1].profiles[1].name = name],
                 <<>>, StorageAbsent)

InitEngine == \E data \in EngineCatalogs : InitWith(data, <<>>, StorageAbsent)

InitDescriptor == \E data \in DescriptorCatalogs : InitWith(data, <<>>, StorageAbsent)

(***************************************************************************)
(* Events.                                                                 *)
(***************************************************************************)
\* the fetch of /profiles.json resolves and init() goes on
FetchResolves ==
    /\ loaded = "loading"
    /\ \E r \in randomChoices(sortCategories(catalog), pathname) :
          Commit(initLoaded(Cur, catalog, r[1], r[2]), "init")
    /\ UNCHANGED <<pending, events>>

\* a variant of FetchFails for an init() that registers its popstate listener
\* before it waits for the catalog
FetchFailsAfterWiring ==
    /\ loaded = "loading"
    /\ Commit([Cur EXCEPT !.loaded = "failed", !.popstateWired = TRUE,
                          !.alerts = <<"LoadFailed", "InitFailed">>],
              "initFailed")
    /\ UNCHANGED <<pending, events>>

\* the fetch fails: loadCategories alerts and rethrows, init alerts
FetchFails ==
    /\ loaded = "loading"
    /\ Commit([Cur EXCEPT !.loaded = "failed", !.alerts = <<"LoadFailed", "InitFailed">>],
              "initFailed")
    /\ UNCHANGED <<pending, events>>

\* no click is being dispatched; what the user can act on is what the page
\* shows and what has a listener, which the guard of each event states
idle == pending = NoPending

\* one more user event, while the bound on their number allows it
Tick == events < MaxEvents /\ events' = events + 1

\* a click on a link of the category menu
CategoryMenuClick(index) ==
    /\ idle /\ ~modalOpen
    /\ Tick
    /\ index + 1 \in DOMAIN categories
    /\ Commit(handleCategoryCardClick(Cur, index), "category")
    /\ UNCHANGED pending

\* a click on a profile card
ProfileCardClick(index) ==
    /\ idle /\ ~modalOpen /\ mgmtListeners > 0
    /\ Tick
    /\ index + 1 \in DOMAIN categories[selectedCategoryIndex + 1].profiles
    /\ Commit(handleProfileCardClick(Cur, index), "profile")
    /\ UNCHANGED pending

\* the user moves range input i to q: the input listener of its row
SliderInput(i, q) ==
    /\ idle /\ ~modalOpen
    /\ Tick
    /\ i \in DOMAIN sliders /\ q # sliders[i]
    /\ LET s1 == [Cur EXCEPT !.sliders[i] = q]
           found == getScoreDescriptor(s1.adjustedCriteria[i], sliderNumber(q))
       IN  Commit(calculateAndDisplayResults(
                     [s1 EXCEPT !.descriptorTexts[i] = found.text]), "slider")
    /\ UNCHANGED pending

\* the user checks the other pieChartOption radio
PieChartOptionChange ==
    /\ idle /\ ~modalOpen /\ mgmtListeners > 0
    /\ Tick
    /\ Commit(dispatchPieChartOption(
                 [Cur EXCEPT !.pieChartOption = IF @ = "100" THEN "likelihood" ELSE "100"],
                 pieListeners), "pie")
    /\ UNCHANGED pending

\* a click on the New button: one call of handleNewInvestor per listener
NewInvestorClick ==
    /\ idle /\ ~modalOpen /\ mgmtListeners > 0
    /\ Tick
    /\ pending' = [target |-> "new", left |-> mgmtListeners]
    /\ Commit(Cur, "newClick")

\* one listener of the New button runs, the prompt returning entityName
NewInvestorListener(entityName) ==
    /\ pending.target = "new"
    /\ CommitInput(handleNewInvestor(Cur, entityName), "new", entityName)
    /\ pending' = IF pending.left = 1 THEN NoPending
                  ELSE [pending EXCEPT !.left = @ - 1]
    /\ UNCHANGED events

\* a click on the Delete button: one call of handleDeleteInvestor per listener
DeleteInvestorClick ==
    /\ idle /\ ~modalOpen /\ mgmtListeners > 0
    /\ Tick
    /\ pending' = [target |-> "delete", left |-> mgmtListeners]
    /\ Commit(Cur, "deleteClick")

\* one listener of the Delete button runs, confirm() returning confirmed
DeleteInvestorListener(confirmed) ==
    /\ pending.target = "delete"
    /\ CommitInput(handleDeleteInvestor(Cur, confirmed), "delete",
                   IF confirmed THEN "ok" ELSE "cancel")
    /\ pending' = IF pending.left = 1 THEN NoPending
                  ELSE [pending EXCEPT !.left = @ - 1]
    /\ UNCHANGED events

\* the user picks another option of the entity select
InvestorSelectChange(entityName) ==
    /\ idle /\ ~modalOpen
    /\ Tick
    /\ entityName \in Range(investorOptions) /\ entityName # investorValue
    /\ Commit(dispatchInvestorChange([Cur EXCEPT !.investorValue = entityName],
                                     mgmtListeners), "change")
    /\ UNCHANGED pending

\* a click on an item of the entity list
InvestorListItemClick(i) ==
    /\ idle /\ ~modalOpen
    /\ Tick
    /\ i \in DOMAIN investorList
    /\ Commit(handleInvestorListItemClick(Cur, investorList[i].name), "listItem")
    /\ UNCHANGED pending

\* the user chooses a picture in the modal and its FileReader loads it
ModalImageUpload(image) ==
    /\ idle /\ modalOpen
    /\ Tick
    /\ Commit([Cur EXCEPT !.modalPreview = image], "upload")
    /\ UNCHANGED pending

\* the edit form of the modal is submitted
InvestorEditFormSubmit ==
    /\ idle /\ modalOpen
    /\ Tick
    /\ Commit(dispatchEditFormSubmit(Cur, mgmtListeners), "submit")
    /\ UNCHANGED pending

\* the modal is dismissed
ModalDismiss ==
    /\ idle /\ modalOpen
    /\ Tick
    /\ Commit([Cur EXCEPT !.modalOpen = FALSE], "dismiss")
    /\ UNCHANGED pending

\* the browser goes back or forward to the entry at index of the session
\* history: the entry becomes the current one, and popstate is dispatched
PopState(index) ==
    /\ idle /\ popstateWired
    /\ Tick
    /\ index \in DOMAIN history /\ index # cursor
    /\ \E r \in randomChoices(categories, history[index]) :
          Commit(handleSlugNavigation(
                     [Cur EXCEPT !.cursor = index, !.pathname = history[index]],
                     r[1], r[2]),
                 "popstate")
    /\ UNCHANGED pending

\* another document of the origin, or the user, rewrites the item
\* 'entities' of localStorage with text that is no JSON
StorageOverwritten ==
    /\ idle /\ loaded = "ready" /\ storage.kind = "json"
    /\ Tick
    /\ Commit([Cur EXCEPT !.storage = StorageCorrupt], "storage")
    /\ UNCHANGED pending

Next ==
    \/ FetchResolves
    \/ FetchFails
    \/ \E index \in 0 .. 1 : CategoryMenuClick(index)
    \/ \E index \in 0 .. 1 : ProfileCardClick(index)
    \/ \E i \in 1 .. 2, q \in AppScores : SliderInput(i, q)
    \/ PieChartOptionChange
    \/ NewInvestorClick
    \/ \E entityName \in EntityNames \cup {""} : NewInvestorListener(entityName)
    \/ DeleteInvestorClick
    \/ \E confirmed \in BOOLEAN : DeleteInvestorListener(confirmed)
    \/ \E entityName \in EntityNames : InvestorSelectChange(entityName)
    \/ \E i \in 1 .. 2 : InvestorListItemClick(i)
    \/ \E image \in Images : ModalImageUpload(image)
    \/ InvestorEditFormSubmit
    \/ ModalDismiss
    \/ \E index \in DOMAIN history : PopState(index)

Spec == Init /\ [][Next]_vars

\* the router alone: the page is opened, the user selects categories and
\* profiles and goes back and forward
NextRouter ==
    \/ FetchResolves
    \/ FetchFails
    \/ \E index \in 0 .. 1 : CategoryMenuClick(index)
    \/ \E index \in 0 .. 1 : ProfileCardClick(index)
    \/ \E index \in DOMAIN history : PopState(index)

SpecRouter == InitRouter /\ [][NextRouter]_vars

\* the calculation boundary: slider moves in a session whose stored
\* entities may be overwritten from outside
NextFault ==
    \/ FetchResolves
    \/ \E i \in 1 .. 2, q \in AppScores : SliderInput(i, q)
    \/ \E entityName \in EntityNames : InvestorSelectChange(entityName)
    \/ StorageOverwritten

SpecFault == InitFault /\ [][NextFault]_vars

\* the slug derivation alone: the profile is selected, and its slug published
NextSlug ==
    \/ FetchResolves
    \/ ProfileCardClick(0)

SpecSlug == InitSlug /\ [][NextSlug]_vars

\* the scoring engine alone: one profile, no entity
NextEngine ==
    \/ FetchResolves
    \/ \E i \in 1 .. MaxCriteria + 1, q \in EngineScores : SliderInput(i, q)
    \/ PieChartOptionChange
    \/ ProfileCardClick(0)

SpecEngine == InitEngine /\ [][NextEngine]_vars

\* the descriptor lookup alone: one criterion and its descriptors
NextDescriptor ==
    \/ FetchResolves
    \/ \E q \in DescriptorScores : SliderInput(1, q)

SpecDescriptor == InitDescriptor /\ [][NextDescriptor]_vars

(***************************************************************************)
(* Properties of the scoring engine, checked under SpecEngine.             *)
(***************************************************************************)
\* the criteria of the profile on the page, as the catalog gives them
shownCriteria ==
    categories[selectedCategoryIndex + 1].profiles[selectedProfileIndex + 1].criteria

\* the total the engine computes from the inputs on the page
shownTotal ==
    calculateTotalScore(
        calculateWeightedScores(getScores(sliders, adjustedCriteria), adjustedCriteria))

\* the sum of a sequence of numbers, from its head
RECURSIVE SumOfNumbers(_)
SumOfNumbers(numbers) ==
    IF numbers = <<>> THEN Num(0) ELSE Add(Head(numbers), SumOfNumbers(Tail(numbers)))

InRange0To100(x) == IsFin(x) /\ 0 <= x.n /\ x.n <= 100 * x.d

\* C2: for a profile whose weights sum to more than 0 and any scores of the
\* range inputs (1 to 5 in steps of 0.25), inverted or not, the total the
\* engine computes lies in [0, 100], and so does the percentage displayed.
TotalWithinRange ==
    (loaded = "ready" /\ totalWeights(adjustedCriteria) > 0) =>
        /\ InRange0To100(shownTotal)
        /\ percentageText = toFixed2(shownTotal)
        /\ percentageText.kind = "fixed"
        /\ percentageText.h \in 0 .. 10000

\* C2, its case: rescaled weights, an inverted criterion, and the total at 100
TotalReachesHundred ==
    /\ loaded = "ready"
    /\ weightWarning
    /\ \E i \in DOMAIN adjustedCriteria :
          adjustedCriteria[i].invert /\ adjustedCriteria[i].weight > 0
    /\ \E i \in DOMAIN sliders : sliders[i] = 20
    /\ shownTotal = Num(100)
    /\ percentageText = [kind |-> "fixed", h |-> 10000]

\* C3: the contribution of criterion i is (score - 1) * adjustedWeight / 4, or
\* (5 - score) * adjustedWeight / 4 when it is inverted: 0 at score 1 and the
\* adjusted weight at score 5, the reverse when inverted; the total displayed
\* is the sum of the contributions; weights 50, 30, 20 with the scores 5, 1, 3
\* and no inversion give the contributions 50, 0, 10 and the total 60.
ContributionFormula ==
    (loaded = "ready" /\ totalWeights(adjustedCriteria) > 0) =>
        /\ Len(chartData) >= Len(sliders)
        /\ \A i \in DOMAIN sliders :
              LET c == chartData[i]
                  w == adjustedCriteria[i].adjustedWeight
                  q == sliders[i]
                  inverted == adjustedCriteria[i].invert
              IN  /\ IsFin(c) /\ IsFin(w)
                  /\ 16 * c.n * w.d = (IF inverted THEN 20 - q ELSE q - 4) * w.n * c.d
                  /\ q = 4 => c = (IF inverted THEN w ELSE Num(0))
                  /\ q = 20 => c = (IF inverted THEN Num(0) ELSE w)
        /\ percentageText = toFixed2(SumOfNumbers(SubSeq(chartData, 1, Len(sliders))))
        /\ ( /\ [i \in DOMAIN adjustedCriteria |-> adjustedCriteria[i].weight] = <<50, 30, 20>>
             /\ \A i \in DOMAIN adjustedCriteria : ~adjustedCriteria[i].invert
             /\ sliders = <<20, 4, 12>> )
           => /\ SubSeq(chartData, 1, 3) = <<Num(50), Num(0), Num(10)>>
              /\ percentageText = [kind |-> "fixed", h |-> 6000]

\* C3, its case: the scenario of the weights 50, 30, 20 and the scores 5, 1, 3
ScenarioSixty ==
    /\ loaded = "ready"
    /\ [i \in DOMAIN adjustedCriteria |-> adjustedCriteria[i].weight] = <<50, 30, 20>>
    /\ \A i \in DOMAIN adjustedCriteria : ~adjustedCriteria[i].invert
    /\ sliders = <<20, 4, 12>>
    /\ chartData = <<Num(50), Num(0), Num(10), Num(40)>>
    /\ percentageText = [kind |-> "fixed", h |-> 6000]

\* C4: every time a profile is selected its adjusted weights are
\* weight / sum(weights) * 100: the nominal weights when they sum to 100,
\* and for positive weights values that sum to 100 whatever the nominal sum
\* (40, 40 gives 50, 50).
AdjustedWeightsNormalised ==
    loaded = "ready" =>
        LET sum == SumSeq([i \in DOMAIN shownCriteria |-> shownCriteria[i].weight])
            adjustedWeights ==
                [i \in DOMAIN adjustedCriteria |-> adjustedCriteria[i].adjustedWeight]
        IN  /\ Len(adjustedCriteria) = Len(shownCriteria)
            /\ sum > 0 =>
                  \A i \in DOMAIN shownCriteria :
                     /\ IsFin(adjustedWeights[i])
                     /\ adjustedWeights[i].n * sum
                            = shownCriteria[i].weight * 100 * adjustedWeights[i].d
            /\ sum = 100 =>
                  \A i \in DOMAIN shownCriteria :
                     adjustedWeights[i] = Num(shownCriteria[i].weight)
            /\ (shownCriteria # <<>> /\ \A i \in DOMAIN shownCriteria :
                                            shownCriteria[i].weight > 0)
                  => SumOfNumbers(adjustedWeights) = Num(100)
            /\ [i \in DOMAIN shownCriteria |-> shownCriteria[i].weight] = <<40, 40>>
                  => adjustedWeights = <<Num(50), Num(50)>>

\* C4, its case: the weights 40, 40 rescaled to 50, 50 when the profile is
\* selected again
FortyFortyRescaled ==
    /\ loaded = "ready"
    /\ lastEvent.name = "profile"
    /\ [i \in DOMAIN shownCriteria |-> shownCriteria[i].weight] = <<40, 40>>
    /\ [i \in DOMAIN adjustedCriteria |-> adjustedCriteria[i].adjustedWeight]
          = <<Num(50), Num(50)>>
    /\ weightWarning

\* C5: weight normalisation never divides by zero: a profile without criteria
\* has the total 0, and when the weights of a profile sum to 0 every adjusted
\* weight is 0 and the total is 0, not an undefined value.
ZeroWeightSumGivesZeroTotal ==
    (loaded # "loading" /\ totalWeights(adjustedCriteria) = 0) =>
        /\ \A i \in DOMAIN adjustedCriteria : adjustedCriteria[i].adjustedWeight = Num(0)
        /\ shownTotal = Num(0)
        /\ percentageText = [kind |-> "fixed", h |-> 0]

\* C5, its case: criteria whose weights are all 0, and the total not a number
ZeroWeightSumGivesNaN ==
    /\ loaded = "ready"
    /\ adjustedCriteria # <<>>
    /\ totalWeights(adjustedCriteria) = 0
    /\ \A i \in DOMAIN adjustedCriteria : adjustedCriteria[i].adjustedWeight = NaN
    /\ shownTotal = NaN
    /\ percentageText = NaNPercentText

\* C5, the part that holds: a profile without criteria has the total 0
NoCriteriaGivesZeroTotal ==
    (loaded = "ready" /\ adjustedCriteria = <<>>) =>
        shownTotal = Num(0) /\ percentageText = [kind |-> "fixed", h |-> 0]

\* the contributions of the criteria on the page, from the range inputs
shownContributions ==
    [i \in DOMAIN sliders |->
        calculateCriterionWeightedScore(adjustedCriteria[i], sliderNumber(sliders[i]))]

\* C21: the chart data by mode.  In the mode 'full 100%' the data are the
\* contributions of the criteria followed by one unlikelihood slice equal to
\* 100 - total, and the contributions alone when 100 - total is <= 0; in the
\* mode 'likelihood' the data are the contributions alone, so that the slices
\* sum to the total and not to 100.
ChartDataByMode ==
    loaded = "ready" =>
        /\ Len(adjustedCriteria) = Len(sliders)
        /\ (pieChartOption = "100" /\ Less(Num(0), Sub(Num(100), shownTotal))) =>
              chartData = Append(shownContributions, Sub(Num(100), shownTotal))
        /\ (pieChartOption = "100" /\ ( \/ Less(Sub(Num(100), shownTotal), Num(0))
                                        \/ Sub(Num(100), shownTotal) = Num(0) )) =>
              chartData = shownContributions
        /\ pieChartOption = "likelihood" =>
              /\ chartData = shownContributions
              /\ SumOfNumbers(chartData) = shownTotal

\* C21, its case: the mode 'likelihood' was just chosen for two criteria
\* whose total lies strictly between 0 and 100; the two slices sum to it
LikelihoodSlicesSumToTotal ==
    /\ lastEvent.name = "pie"
    /\ pieChartOption = "likelihood"
    /\ Len(sliders) = 2
    /\ Len(chartData) = 2
    /\ Less(Num(0), shownTotal) /\ Less(shownTotal, Num(100))
    /\ SumOfNumbers(chartData) = shownTotal

\* C21, the case of the total 100: the mode is 'full 100%' and the data hold
\* no unlikelihood slice
ResidualOmittedAtHundred ==
    /\ lastEvent.name = "slider"
    /\ pieChartOption = "100"
    /\ shownTotal = Num(100)
    /\ sliders # <<>>
    /\ Len(chartData) = Len(sliders)

(***************************************************************************)
(* Properties of the descriptor lookup, checked under SpecDescriptor.      *)
(***************************************************************************)
\* the text of the descriptor nearest to the score of q quarter units: among
\* the keys equally near, the first in the order the keys are enumerated; the
\* empty text when the criterion defines no descriptor
NearestDescriptorText(criterion, q) ==
    IF ~criterion.hasDescriptors \/ criterion.scoreDescriptors = <<>> THEN ""
    ELSE LET keys == objectKeys(criterion.scoreDescriptors)
             nearest == {i \in DOMAIN keys :
                            \A j \in DOMAIN keys : Abs(keys[i] - q) <= Abs(keys[j] - q)}
             first == CHOOSE i \in nearest : \A j \in nearest : i <= j
         IN  descriptorText(criterion.scoreDescriptors, keys[first])

\* C6: the descriptor shown for a criterion and a score is the one whose key
\* is nearest to the score (the exact key when there is one), the first key
\* enumerated among those equally near, and the empty text when the criterion
\* defines no descriptors.
DescriptorLookupNearest ==
    loaded # "loading" =>
        /\ loaded = "ready"
        /\ Len(descriptorTexts) = Len(adjustedCriteria)
        /\ \A i \in DOMAIN adjustedCriteria :
              descriptorTexts[i] = NearestDescriptorText(adjustedCriteria[i], sliders[i])

\* C6, its failing case: a criterion whose scoreDescriptors is an empty
\* object; the lookup raised a TypeError, no row was built and init failed
EmptyDescriptorsThrow ==
    /\ loaded = "failed"
    /\ adjustedCriteria # <<>>
    /\ adjustedCriteria[1].hasDescriptors
    /\ adjustedCriteria[1].scoreDescriptors = <<>>
    /\ descriptorTexts = <<>>
    /\ "InitFailed" \in Range(alerts)

\* C6, the part that holds: the same for the criteria that define at least
\* one descriptor or have no scoreDescriptors at all
DescriptorLookupNearestUnlessEmpty ==
    (loaded # "loading"
        /\ \A i \in DOMAIN adjustedCriteria :
              ~adjustedCriteria[i].hasDescriptors
                  \/ adjustedCriteria[i].scoreDescriptors # <<>>) =>
        /\ loaded = "ready"
        /\ Len(descriptorTexts) = Len(adjustedCriteria)
        /\ \A i \in DOMAIN adjustedCriteria :
              descriptorTexts[i] = NearestDescriptorText(adjustedCriteria[i], sliders[i])

\* C6, a tie: the score 3 between the keys 1 and 5 takes the text of 1, which
\* Object.keys enumerates first although 5 was written first
TieTakesFirstEnumerated ==
    /\ loaded = "ready"
    /\ adjustedCriteria[1].scoreDescriptors
          = <<[key |-> 20, text |-> "high"], [key |-> 4, text |-> "low"]>>
    /\ sliders = <<12>>
    /\ descriptorTexts = <<"low">>

(***************************************************************************)
(* Properties of the entity store, checked under Spec.                     *)
(***************************************************************************)
\* the name of the category at index of cats ("" before the catalog is loaded)
categoryNameAt(cats, index) ==
    IF index + 1 \in DOMAIN cats THEN cats[index + 1].name ELSE <<>>

\* the name of the profile at index of that category
profileNameAt(cats, index, profileIndex) ==
    IF index + 1 \in DOMAIN cats /\ profileIndex + 1 \in DOMAIN cats[index + 1].profiles
    THEN cats[index + 1].profiles[profileIndex + 1].name
    ELSE <<>>

\* the entities the store holds under a category
entitiesUnder(data, categoryName) ==
    IF categoryName \in DOMAIN data THEN data[categoryName] ELSE EmptyObject

\* the store holds a result for (category, entity, profile)
hasResult(data, categoryName, entityName, profileName) ==
    /\ categoryName \in DOMAIN data
    /\ entityName \in Range(data[categoryName].keys)
    /\ categoryName \in DOMAIN data[categoryName].val[entityName].cats
    /\ profileName \in DOMAIN data[categoryName].val[entityName].cats[categoryName]

resultOf(data, categoryName, entityName, profileName) ==
    data[categoryName].val[entityName].cats[categoryName][profileName]

\* C1: round trip.  A slider move with an entity selected saves, for the
\* selected (category, entity, profile), exactly the scores of the range
\* inputs and the percentage text displayed; and selecting an entity loads
\* the result the store holds for (category, entity, profile) - the last one
\* saved, no save to it and no delete of the entity having happened since -
\* exactly: its scores into the range inputs, its text as the percentage.
SaveThenLoadRestores ==
    [][ LET C == categoryNameAt(categories', selectedCategoryIndex')
            P == profileNameAt(categories', selectedCategoryIndex', selectedProfileIndex')
            E == investorValue'
        IN  /\ (lastEvent'.name = "slider" /\ E # "" /\ storage'.kind = "json") =>
                  /\ hasResult(storage'.data, C, E, P)
                  /\ LET saved == resultOf(storage'.data, C, E, P)
                     IN  /\ Len(saved.scores) = Len(sliders')
                         /\ \A i \in DOMAIN sliders' :
                               saved.scores[i].score = Rat(sliders'[i], 4)
                         /\ saved.percentageLikelihood = percentageText'
            /\ (lastEvent'.name = "change" /\ hasResult(storage.data, C, E, P)) =>
                  LET saved == resultOf(storage.data, C, E, P)
                  IN  /\ ~thrown'
                      /\ storage' = storage
                      /\ Len(sliders') = Len(saved.scores)
                      /\ \A i \in DOMAIN sliders' :
                            Rat(sliders'[i], 4) = saved.scores[i].score
                      /\ percentageText' = saved.percentageLikelihood
      ]_vars

\* C1, its case: Acme selected again after another entity, and the result an
\* earlier session saved for it (the scores 5 and 2.25) back on the page
SavedResultRestored ==
    /\ lastEvent.name = "change"
    /\ investorValue = "Acme"
    /\ categoryNameAt(categories, selectedCategoryIndex) = InvestName
    /\ profileNameAt(categories, selectedCategoryIndex, selectedProfileIndex) = ProAName
    /\ hasResult(storage.data, InvestName, "Acme", ProAName)
    /\ resultOf(storage.data, InvestName, "Acme", ProAName) = SavedResult
    /\ sliders = SavedSliders
    /\ percentageText = SavedResult.percentageLikelihood

\* C7: categories partition the store.  Whatever an event does - create,
\* delete, save a result, set an image - the records stored under every
\* category other than the one selected when it ends are left as they were,
\* so entities of the same name in two categories hold independent records.
CategoriesPartitionStore ==
    [][ \A c \in (DOMAIN storage.data) \cup (DOMAIN storage'.data) :
            c # categoryNameAt(categories', selectedCategoryIndex') =>
                /\ c \in DOMAIN storage.data
                /\ c \in DOMAIN storage'.data
                /\ storage'.data[c] = storage.data[c]
      ]_vars

\* C7, its case: Acme under Invest keeps the result saved for it while Acme,
\* created under Health, has just been given a result of its own
SameNameInTwoCategories ==
    /\ lastEvent.name = "slider"
    /\ categoryNameAt(categories, selectedCategoryIndex) = HealthName
    /\ investorValue = "Acme"
    /\ hasResult(storage.data, HealthName, "Acme", VitalsName)
    /\ hasResult(storage.data, InvestName, "Acme", ProAName)
    /\ resultOf(storage.data, InvestName, "Acme", ProAName) = SavedResult
    /\ resultOf(storage.data, HealthName, "Acme", VitalsName) # SavedResult

\* C8: saving a result is an upsert.  After an event that saves once (a
\* slider move, a change of the chart option, a click on a profile card) the
\* store holds for the selected (category, entity, profile) the result on
\* the page, whatever it held before; the other entities of the category,
\* the picture of the entity and its results for other profiles are as they
\* were; and a save of the result the store already holds changes nothing.
SaveResultIsUpsert ==
    [][ (lastEvent'.name \in {"slider", "pie", "profile"}
            /\ investorValue' # "" /\ storage'.kind = "json" /\ ~thrown') =>
        LET C == categoryNameAt(categories', selectedCategoryIndex')
            P == profileNameAt(categories', selectedCategoryIndex', selectedProfileIndex')
            E == investorValue'
            before == entitiesUnder(storage.data, C)
            after == entitiesUnder(storage'.data, C)
        IN  /\ hasResult(storage'.data, C, E, P)
            /\ resultOf(storage'.data, C, E, P) =
                  [scores |-> [i \in DOMAIN sliders' |->
                                  [score |-> Rat(sliders'[i], 4),
                                   weight |-> adjustedCriteria'[i].adjustedWeight,
                                   index |-> i - 1]],
                   percentageLikelihood |-> percentageText']
            /\ after.keys = before.keys
            /\ \A e \in Range(before.keys) \ {E} : after.val[e] = before.val[e]
            /\ after.val[E].image = before.val[E].image
            /\ \A c \in (DOMAIN before.val[E].cats) \cup (DOMAIN after.val[E].cats) :
                  /\ c \in DOMAIN after.val[E].cats
                  /\ c # C => /\ c \in DOMAIN before.val[E].cats
                              /\ after.val[E].cats[c] = before.val[E].cats[c]
            /\ DOMAIN after.val[E].cats[C] =
                  {P} \cup (IF C \in DOMAIN before.val[E].cats
                            THEN DOMAIN before.val[E].cats[C] ELSE {})
            /\ \A p \in (DOMAIN after.val[E].cats[C]) \ {P} :
                  after.val[E].cats[C][p] = before.val[E].cats[C][p]
            /\ ( /\ hasResult(storage.data, C, E, P)
                 /\ resultOf(storage.data, C, E, P) = resultOf(storage'.data, C, E, P) )
               => storage' = storage
      ]_vars

\* C8, its case: the result saved for Acme and Pro A replaced by the one a
\* slider move gave, the results of Acme for R & D and the record of Beta
\* being kept
EarlierResultReplaced ==
    /\ lastEvent.name = "slider"
    /\ investorValue = "Acme"
    /\ categoryNameAt(categories, selectedCategoryIndex) = InvestName
    /\ profileNameAt(categories, selectedCategoryIndex, selectedProfileIndex) = ProAName
    /\ hasResult(storage.data, InvestName, "Acme", ProAName)
    /\ resultOf(storage.data, InvestName, "Acme", ProAName) # SavedResult
    /\ hasResult(storage.data, InvestName, "Acme", RAndDName)
    /\ storage.data[InvestName].keys = <<"Acme", "Beta">>
    /\ storage.data[InvestName].val["Beta"] = EmptyEntity

\* C9: creating an entity whose exact name exists in the selected category
\* signals AlreadyExists and leaves the store as it was; any other name that
\* is not empty adds an empty record under it and leaves every other entity
\* as it was.
CreateEntityContract ==
    [][ (lastEvent'.name = "new" /\ lastEvent'.input # "" /\ storage.kind # "corrupt") =>
        LET N == lastEvent'.input
            C == categoryNameAt(categories, selectedCategoryIndex)
            before == entitiesUnder(storage.data, C)
            after == entitiesUnder(storage'.data, C)
        IN  IF N \in Range(before.keys)
            THEN "AlreadyExists" \in Range(alerts') /\ storage' = storage
            ELSE /\ "AlreadyExists" \notin Range(alerts')
                 /\ Range(after.keys) = Range(before.keys) \cup {N}
                 /\ after.val[N] = EmptyEntity
                 /\ \A e \in Range(before.keys) : after.val[e] = before.val[e]
      ]_vars

\* C9, its failing case: the name "constructor", which no entity bears, is
\* refused as existing and nothing is added
InheritedNameRefused ==
    /\ lastEvent = [name |-> "new", input |-> "constructor"]
    /\ "AlreadyExists" \in Range(alerts)
    /\ storage.kind # "corrupt"
    /\ "constructor" \notin
          Range(entitiesUnder(storage.data,
                              categoryNameAt(categories, selectedCategoryIndex)).keys)

\* C9, the part that holds: the same for the names Object.prototype does not
\* define
CreateEntityContractOwnNames ==
    [][ (lastEvent'.name = "new" /\ lastEvent'.input # "" /\ storage.kind # "corrupt"
            /\ lastEvent'.input \notin ObjectPrototypeKeys) =>
        LET N == lastEvent'.input
            C == categoryNameAt(categories, selectedCategoryIndex)
            before == entitiesUnder(storage.data, C)
            after == entitiesUnder(storage'.data, C)
        IN  IF N \in Range(before.keys)
            THEN "AlreadyExists" \in Range(alerts') /\ storage' = storage
            ELSE /\ "AlreadyExists" \notin Range(alerts')
                 /\ Range(after.keys) = Range(before.keys) \cup {N}
                 /\ after.val[N] = EmptyEntity
                 /\ \A e \in Range(before.keys) : after.val[e] = before.val[e]
      ]_vars

\* C10: reading the saved entities never throws: with nothing stored, or with
\* stored text that is no JSON, the read gives an empty mapping and the
\* session goes on - init completes, no handler ends with an exception.
StorageReadNeverThrows ==
    /\ ~thrown
    /\ "CalculationError" \notin Range(alerts)
    /\ (loaded = "failed" => lastEvent.name = "initFailed" \/ categories = <<>>)

\* C10, its failing case: the stored text is no JSON, the catalog was
\* fetched, and init ended in its catch with the failure alert
CorruptStorageFailsInit ==
    /\ storage.kind = "corrupt"
    /\ categories # <<>>
    /\ loaded = "failed"
    /\ lastEvent.name = "init"
    /\ alerts = <<"InitFailed">>
    /\ ~popstateWired

\* C10, the part that holds: with nothing stored, or a store an earlier
\* session wrote, no read throws
IntactStorageNeverThrows ==
    storage.kind # "corrupt" =>
        /\ ~thrown
        /\ "CalculationError" \notin Range(alerts)
        /\ (loaded = "failed" => categories = <<>>)

\* C11: deleting an entity removes its whole record - every saved result and
\* its picture - from the selected category and leaves the other entities as
\* they were; deleting the same name again, now absent, raises no error and
\* leaves the store as the first delete left it; a delete that is not
\* confirmed, or that has no name to work on, leaves the store unchanged.
DeleteRemovesWholeRecord ==
    [][ lastEvent'.name = "delete" =>
        LET N == investorValue
            C == categoryNameAt(categories, selectedCategoryIndex)
            before == entitiesUnder(storage.data, C)
            after == entitiesUnder(storage'.data, C)
            again == handleDeleteInvestor([Cur' EXCEPT !.investorValue = N], TRUE)
        IN  IF lastEvent'.input = "ok" /\ N # ""
            THEN /\ ~thrown'
                 /\ N \notin Range(after.keys)
                 /\ N \notin DOMAIN after.val
                 /\ after.keys = SelectSeq(before.keys, LAMBDA k : k # N)
                 /\ \A e \in Range(after.keys) : after.val[e] = before.val[e]
                 /\ ~again.exc
                 /\ again.storage = storage'
            ELSE storage' = storage /\ ~thrown'
      ]_vars

\* C11, its case: Acme, which had a result saved for Pro A, has just been
\* deleted from Invest, and Beta is all the category still holds
AcmeDeletedBetaKept ==
    /\ lastEvent = [name |-> "delete", input |-> "ok"]
    /\ categoryNameAt(categories, selectedCategoryIndex) = InvestName
    /\ storage.kind = "json"
    /\ storage.data[InvestName].keys = <<"Beta">>
    /\ DOMAIN storage.data[InvestName].val = {"Beta"}
    /\ storage.data[InvestName].val["Beta"] = EmptyEntity
    /\ investorValue = "Beta"

\* the page shows the defaults: every range input at 1, the aggregate 0%
showsDefaults(inputs, adjusted, text) ==
    /\ Len(inputs) = Len(adjusted)
    /\ \A i \in DOMAIN inputs : inputs[i] = 4
    /\ text = ZeroPercentText

\* C12: when the store holds no result for the selected (category, entity,
\* profile), loading resets the page to the defaults - every score input 1,
\* the aggregate 0% - and changes nothing in the store: so it is after the
\* user picks such an entity in the select, and so would loadSavedInputs
\* leave the page for every entity of the select that has no result.
LoadWithoutResultResets ==
    [][ LET C == categoryNameAt(categories', selectedCategoryIndex')
            P == profileNameAt(categories', selectedCategoryIndex', selectedProfileIndex')
        IN  /\ (lastEvent'.name = "change"
                   /\ ~hasResult(storage.data, C, investorValue', P)) =>
                  /\ ~thrown'
                  /\ storage' = storage
                  /\ showsDefaults(sliders', adjustedCriteria', percentageText')
            /\ (storage'.kind = "json" /\ sliders' # <<>>) =>
                  \A e \in Range(investorOptions') :
                     ~hasResult(storage'.data, C, e, P) =>
                        LET l == loadSavedInputs([Cur' EXCEPT !.investorValue = e])
                        IN  /\ ~l.exc
                            /\ l.storage = storage'
                            /\ showsDefaults(l.sliders, l.adjustedCriteria,
                                             l.percentageText)
      ]_vars

\* C12, its case: Beta, which has no result, picked after Acme, whose saved
\* scores 5 and 2.25 were on the page: both inputs are back at 1 and the
\* aggregate at 0%
BetaWithoutResultShowsDefaults ==
    /\ lastEvent.name = "change"
    /\ investorValue = "Beta"
    /\ categoryNameAt(categories, selectedCategoryIndex) = InvestName
    /\ profileNameAt(categories, selectedCategoryIndex, selectedProfileIndex) = ProAName
    /\ ~hasResult(storage.data, InvestName, "Beta", ProAName)
    /\ hasResult(storage.data, InvestName, "Acme", ProAName)
    /\ resultOf(storage.data, InvestName, "Acme", ProAName).scores[1].score = Num(5)
    /\ sliders = <<4, 4>>
    /\ percentageText = ZeroPercentText

(***************************************************************************)
(* Properties of the router, checked under Spec and SpecRouter.            *)
(***************************************************************************)
\* the path that selecting profile p of category c publishes
profilePath(c, p) == <<c.slug, generateSlug(p.name)>>

\* state s has profile pi of category ci selected (indices from 0): the two
\* indices, and the criteria of that profile in the criteria table
showsPair(s, ci, pi) ==
    /\ ci + 1 \in DOMAIN s.categories
    /\ pi + 1 \in DOMAIN s.categories[ci + 1].profiles
    /\ s.selectedCategoryIndex = ci
    /\ s.selectedProfileIndex = pi
    /\ s.adjustedCriteria = adjustCriteria(s.categories[ci + 1].profiles[pi + 1].criteria)
    /\ Len(s.sliders) = Len(s.adjustedCriteria)

\* the last event resolved the path pathSegments: init() on load, or the
\* popstate listener on a back/forward navigation
routed == lastEvent.name \in {"init", "popstate"}

\* the last event ran to its end: no exception, and the page is ready
completed == ~thrown /\ loaded = "ready"

\* C13: for every category c and profile p of the catalog, resolving the
\* path /{c.slug}/{slugify(p.name)} - when the page is opened at it, and when
\* the browser returns to it - ends with exactly (c, p) selected.
DeepLinkSelectsPair ==
    \A ci \in DOMAIN categories :
       \A pi \in DOMAIN categories[ci].profiles :
          (routed /\ pathSegments = profilePath(categories[ci], categories[ci].profiles[pi]))
             => completed /\ showsPair(Cur, ci - 1, pi - 1)

\* C13, its failing case: the page was opened at /invest/r--d while the
\* stored entities are no JSON; init ended in its catch after
\* handleCategoryCardClick published /invest, and no profile is shown
DeepLinkFailsOnCorruptStorage ==
    /\ lastEvent.name = "init"
    /\ pathSegments = profilePath(AppCatalog[1], AppCatalog[1].profiles[2])
    /\ storage.kind = "corrupt"
    /\ loaded = "failed"
    /\ categoryNameAt(categories, selectedCategoryIndex) = InvestName
    /\ selectedProfileIndex = 0
    /\ pathname = <<AppCatalog[1].slug>>
    /\ adjustedCriteria = <<>>
    /\ sliders = <<>>
    /\ ~popstateWired

\* C13, the part that holds: the same while the stored entities can be read
DeepLinkSelectsPairWhenStoreReadable ==
    storage.kind # "corrupt" => DeepLinkSelectsPair

\* C13, the case of the part that holds: the browser returned to
\* /invest/r--d, and R & D of Invest is selected
DeepLinkReturnedTo ==
    /\ lastEvent.name = "popstate"
    /\ pathSegments = profilePath(AppCatalog[1], AppCatalog[1].profiles[2])
    /\ pathname = pathSegments
    /\ categoryNameAt(categories, selectedCategoryIndex) = InvestName
    /\ profileNameAt(categories, selectedCategoryIndex, selectedProfileIndex) = RAndDName
    /\ ~thrown

\* c comes first under (weight ascending, then name ascending) in the catalog
comesFirst(c) ==
    \A i \in DOMAIN catalog :
        \/ catalog[i] = c
        \/ c.weight < catalog[i].weight
        \/ c.weight = catalog[i].weight /\ localeCompare(c.name, catalog[i].name) < 0

\* state s has the first profile of category ci selected and the address bar
\* at /{slug of that category}
showsDefaultOf(s, ci) ==
    /\ showsPair(s, ci, 0)
    /\ s.pathname = <<s.categories[ci + 1].slug>>

\* C14: on load at a zero-segment path, and on a back/forward navigation to
\* one, the router selects the category that comes first under (weight
\* ascending, then name ascending) and the first profile of that category,
\* and the address bar ends at /{slug of that category}.
DefaultRouteSelectsFirst ==
    (routed /\ pathSegments = <<>>) =>
        /\ completed
        /\ \E ci \in DOMAIN categories :
              comesFirst(categories[ci]) /\ showsDefaultOf(Cur, ci - 1)

\* C14, its failing case: the page was opened at / while the stored entities
\* are no JSON; init ended in its catch after handleCategoryCardClick(0)
\* published the slug of the first category, and no profile is shown
DefaultRouteFailsOnCorruptStorage ==
    /\ lastEvent.name = "init"
    /\ pathSegments = <<>>
    /\ storage.kind = "corrupt"
    /\ loaded = "failed"
    /\ selectedCategoryIndex = 0
    /\ comesFirst(categories[1])
    /\ pathname = <<categories[1].slug>>
    /\ adjustedCriteria = <<>>
    /\ sliders = <<>>

\* C14, the part that holds: the same while the stored entities can be read
DefaultRouteSelectsFirstWhenStoreReadable ==
    storage.kind # "corrupt" => DefaultRouteSelectsFirst

\* C14, the case of the part that holds: Invest, of the lower weight, and
\* its first profile are selected after the browser returned to /
DefaultRouteReturnedTo ==
    /\ lastEvent.name = "popstate"
    /\ pathSegments = <<>>
    /\ catalog = WeightedCatalog(1, 2)
    /\ pathname = <<AppCatalog[1].slug>>
    /\ selectedCategoryIndex = 0
    /\ categoryNameAt(categories, selectedCategoryIndex) = InvestName
    /\ profileNameAt(categories, selectedCategoryIndex, selectedProfileIndex) = ProAName
    /\ alerts = <<>>
    /\ ~thrown

\* findIndex of the category whose slug is the first segment of path, and of
\* the profile of category ci whose slug is the second
categoryIndexOf(path) ==
    firstIndex({i \in DOMAIN categories : categories[i].slug = path[1]})

profileIndexOf(ci, path) ==
    firstIndex({i \in DOMAIN categories[ci + 1].profiles :
                   generateSlug(categories[ci + 1].profiles[i].name) = path[2]})

\* C15: not-found routes fall back to a default after notifying the user.
\* A path whose first segment is no category slug signals NotFound and ends
\* with the category that comes first under (weight, name) and its first
\* profile selected; a known category followed by a slug of none of its
\* profiles signals NotFound and ends with the first profile of that
\* category selected.
NotFoundFallsBack ==
    /\ (routed /\ Len(pathSegments) > 0 /\ pathSegments[1] # Random
            /\ categoryIndexOf(pathSegments) = -1) =>
          /\ completed
          /\ "CategoryNotFound" \in Range(alerts)
          /\ showsPair(Cur, 0, 0)
          /\ comesFirst(categories[1])
    /\ (routed /\ Len(pathSegments) > 1 /\ categoryIndexOf(pathSegments) # -1
            /\ profileIndexOf(categoryIndexOf(pathSegments), pathSegments) = -1) =>
          /\ completed
          /\ "ProfileNotFound" \in Range(alerts)
          /\ showsPair(Cur, categoryIndexOf(pathSegments), 0)

\* C15, its failing case: the page was opened at /invest/none while the
\* stored entities are no JSON; init ended in its catch with no profile
\* shown, and the user was never told that the profile does not exist
NotFoundFailsOnCorruptStorage ==
    /\ lastEvent.name = "init"
    /\ pathSegments = <<AppCatalog[1].slug, <<"n","o","n","e">>>>
    /\ storage.kind = "corrupt"
    /\ alerts = <<"InitFailed">>
    /\ loaded = "failed"
    /\ adjustedCriteria = <<>>
    /\ sliders = <<>>

\* C15, the part that holds: the same while the stored entities can be read
NotFoundFallsBackWhenStoreReadable ==
    storage.kind # "corrupt" => NotFoundFallsBack

\* C15, the case of the part that holds: the browser returned to
\* /invest/none; the user was told, and Pro A of Invest is selected
UnknownProfileFellBack ==
    /\ lastEvent.name = "popstate"
    /\ pathSegments = <<AppCatalog[1].slug, <<"n","o","n","e">>>>
    /\ alerts = <<"ProfileNotFound">>
    /\ categoryNameAt(categories, selectedCategoryIndex) = InvestName
    /\ profileNameAt(categories, selectedCategoryIndex, selectedProfileIndex) = ProAName
    /\ pathname = profilePath(AppCatalog[1], AppCatalog[1].profiles[1])
    /\ ~thrown

\* state s has the first profile of category ci selected and the address bar
\* at /{slug of that category}/{slug of its first profile}
showsFirstProfileOf(s, ci) ==
    /\ showsPair(s, ci, 0)
    /\ s.pathname = profilePath(s.categories[ci + 1], s.categories[ci + 1].profiles[1])

\* C16: selecting a category - a click on its card or on its menu link, or
\* the resolution of a path /{categorySlug} of a known category - always
\* ends with that category selected, profile index 0 selected, and the
\* address bar at /{categorySlug}/{slug of the first profile of the category}.
CategorySelectionCascades ==
    /\ lastEvent.name = "category" =>
          ~thrown /\ showsFirstProfileOf(Cur, selectedCategoryIndex)
    /\ (routed /\ Len(pathSegments) = 1 /\ categoryIndexOf(pathSegments) # -1) =>
          completed /\ showsFirstProfileOf(Cur, categoryIndexOf(pathSegments))

\* C16, its failing case: a click on a menu link while the stored entities
\* are no JSON; the handler ended with an exception after publishing the
\* slug of the category, and no profile is shown
CategoryClickFailsOnCorruptStorage ==
    /\ lastEvent.name = "category"
    /\ thrown
    /\ storage.kind = "corrupt"
    /\ pathname = <<categories[selectedCategoryIndex + 1].slug>>
    /\ adjustedCriteria = <<>>
    /\ sliders = <<>>

\* C16, the part that holds: the same while the stored entities can be read
CategorySelectionCascadesWhenStoreReadable ==
    storage.kind # "corrupt" => CategorySelectionCascades

\* C16, the case of the part that holds: a click on the menu link of Invest;
\* Pro A is selected and the address bar is at /invest/pro-a
CategoryClickCascaded ==
    /\ lastEvent.name = "category"
    /\ ~thrown
    /\ categoryNameAt(categories, selectedCategoryIndex) = InvestName
    /\ selectedProfileIndex = 0
    /\ adjustedCriteria = adjustCriteria(AppCatalog[1].profiles[1].criteria)
    /\ pathname = <<AppCatalog[1].slug, <<"p","r","o","-","a">>>>

\* C17: resolving /random selects a category index within the catalog and a
\* profile index within that category, and finishes with the address bar -
\* the current history entry - at /{categorySlug}/{profileSlug} of the
\* selected pair and not at /random, so that resolving the current entry
\* again (a reload, a return to it) selects the same pair.
RandomRoutePublishesPair ==
    (routed /\ pathSegments = <<Random>>) =>
        /\ completed
        /\ hasSelectedProfile(Cur)
        /\ showsPair(Cur, selectedCategoryIndex, selectedProfileIndex)
        /\ pathname = profilePath(selectedCategoryOf(Cur), selectedProfileOf(Cur))
        /\ pathname # <<Random>>
        /\ \A r \in randomChoices(categories, <<Random>>) :
              LET again == handleSlugNavigation(Cur, r[1], r[2])
              IN  /\ ~again.exc
                  /\ showsPair(again, selectedCategoryIndex, selectedProfileIndex)
                  /\ again.pathname = pathname

\* C17, its failing case: the page was opened at /random while the stored
\* entities are no JSON; init ended in its catch after
\* handleCategoryCardClick published the slug of the category drawn, no
\* profile is shown and no path of a pair was published
RandomRouteFailsOnCorruptStorage ==
    /\ lastEvent.name = "init"
    /\ pathSegments = <<Random>>
    /\ storage.kind = "corrupt"
    /\ loaded = "failed"
    /\ Len(pathname) = 1
    /\ adjustedCriteria = <<>>
    /\ sliders = <<>>

\* C17, the part that holds: the same while the stored entities can be read
RandomRoutePublishesPairWhenStoreReadable ==
    storage.kind # "corrupt" => RandomRoutePublishesPair

\* C17, the case of the part that holds: the browser returned to /random,
\* R & D of Invest was drawn, and the address bar is at /invest/r--d
RandomRouteDrewPair ==
    /\ lastEvent.name = "popstate"
    /\ pathSegments = <<Random>>
    /\ categoryNameAt(categories, selectedCategoryIndex) = InvestName
    /\ profileNameAt(categories, selectedCategoryIndex, selectedProfileIndex) = RAndDName
    /\ pathname = profilePath(AppCatalog[1], AppCatalog[1].profiles[2])
    /\ ~thrown

\* the last event resolved a path that leads to the implicit default
\* redirect: no segment, or a first segment that is no category slug
defaultRedirect ==
    /\ routed
    /\ \/ pathSegments = <<>>
       \/ pathSegments[1] # Random /\ categoryIndexOf(pathSegments) = -1

\* C18: the implicit default redirect (zero-segment path, or fallback after
\* an unknown category) rewrites the address bar by replace, not push: it
\* adds no entry to the history, which is as long after the redirect as
\* before it; only user-driven navigation - a click on a card or on a menu
\* item - pushes entries.
DefaultRedirectAddsNoEntry ==
    /\ defaultRedirect => pushed = 0
    /\ pushed > 0 => lastEvent.name \in {"category", "profile"}

\* C18, its failing case: the page was opened at / with nothing stored; the
\* redirect ran to its end, the address bar is at the slug of the first
\* category, and three entries were pushed on the way
DefaultRedirectPushedThree ==
    /\ lastEvent.name = "init"
    /\ pathSegments = <<>>
    /\ storage.kind = "absent"
    /\ completed
    /\ showsDefaultOf(Cur, 0)
    /\ pushed = 3

\* C18, the part that holds: a click on a menu item or on a profile card
\* that runs to its end pushes entries - two and one - and the default
\* redirect that runs to its end leaves the address bar at the slug alone,
\* as replaceState wrote it
ClicksPushRedirectReplaces ==
    /\ (lastEvent.name = "category" /\ ~thrown) => pushed = 2
    /\ (lastEvent.name = "profile" /\ ~thrown) => pushed = 1
    /\ (defaultRedirect /\ completed) => showsDefaultOf(Cur, 0)

(***************************************************************************)
(* Properties of the start of the session and of the calculation boundary. *)
(***************************************************************************)
\* C19: no selection, scoring, persistence or navigation handler runs before
\* the one fetch of the catalog has resolved: until then nothing has a
\* listener and nothing was selected, saved or published, and the only step
\* there is is the end of the fetch.  If the fetch or the parse fails, the
\* initialisation error is shown, no control and no popstate listener is
\* wired up, and no retry is made: no step follows.
FetchGatesEverything ==
    [][ /\ loaded = "loading" =>
              /\ lastEvent.name = "load"
              /\ events = 0 /\ pushed = 0
              /\ mgmtListeners = 0 /\ ~popstateWired
              /\ categories = <<>> /\ sliders = <<>> /\ investorOptions = <<>>
              /\ lastEvent'.name \in {"init", "initFailed"}
              /\ loaded' # "loading"
        /\ lastEvent'.name = "initFailed" =>
              /\ loaded' = "failed"
              /\ "InitFailed" \in Range(alerts')
              /\ mgmtListeners' = 0 /\ ~popstateWired'
              /\ categories' = <<>> /\ sliders' = <<>> /\ investorOptions' = <<>>
        /\ lastEvent.name # "initFailed"
      ]_vars

\* C19, its case: the fetch failed; both alerts were shown and nothing is
\* wired
FetchFailedNothingWired ==
    /\ lastEvent.name = "initFailed"
    /\ loaded = "failed"
    /\ alerts = <<"LoadFailed", "InitFailed">>
    /\ mgmtListeners = 0
    /\ ~popstateWired
    /\ categories = <<>>

\* C20: an exception raised during the calculate-and-display operation is
\* caught at that boundary.  Whatever a slider move meets - here stored
\* entities that have become unreadable when the result is to be saved - the
\* handler ends without an exception, the result is computed and displayed,
\* the generic message is shown when the save failed, nothing is persisted
\* for the failed calculation, and every listener stays in place, so that
\* later events are handled the same way.
CalculationFaultIsContained ==
    [][ lastEvent'.name = "slider" =>
        /\ ~thrown'
        /\ percentageText' =
              toFixed2(percentageLikelihoodOf(calculateTotalScore(
                  calculateWeightedScores(getScores(sliders', adjustedCriteria'),
                                          adjustedCriteria'))))
        /\ (storage.kind = "corrupt" /\ investorValue # "") <=>
              "CalculationError" \in Range(alerts')
        /\ "CalculationError" \in Range(alerts') => storage' = storage
        /\ mgmtListeners' = mgmtListeners
        /\ popstateWired' = popstateWired
        /\ DOMAIN sliders' = DOMAIN sliders
      ]_vars

\* C20, its case: the stored entities were overwritten while Acme was
\* selected; two slider moves followed, and the second, like the first,
\* ended with the message and without an exception
SecondFaultContained ==
    /\ lastEvent.name = "slider"
    /\ events = 3
    /\ storage.kind = "corrupt"
    /\ investorValue = "Acme"
    /\ alerts = <<"CalculationError">>
    /\ ~thrown
    /\ sliders # SavedSliders
    /\ percentageText # SavedResult.percentageLikelihood

(***************************************************************************)
(* Properties of the slug derivation, checked under SpecSlug.              *)
(***************************************************************************)
\* the name of the one profile of the catalog
nameOfProfile == catalog[1].profiles[1].name

\* name in lower case, position by position: the first character of a run of
\* whitespace is a hyphen, the others are nothing; then every character that
\* is not a letter, a digit, an underscore or a hyphen is left out
slugAsStated(name) ==
    LET lowered == [i \in DOMAIN name |-> toLowerCase(name[i])]
        hyphenated ==
            [i \in DOMAIN name |->
                IF lowered[i] \notin WhitespaceChars THEN lowered[i]
                ELSE IF i = 1 \/ lowered[i - 1] \notin WhitespaceChars THEN "-"
                ELSE ""]
    IN  SelectSeq(hyphenated,
                  LAMBDA c : c \in Range(LowerChars) \cup Range(DigitChars) \cup {"_", "-"})

GeneralInvestorEngagement ==
    <<"G","e","n","e","r","a","l"," ","I","n","v","e","s","t","o","r"," ",
      "E","n","g","a","g","e","m","e","n","t">>

\* C22: slugify(name) is name in lower case, with every run of whitespace
\* replaced by a single hyphen and then every character that is not a
\* letter, a digit, an underscore or a hyphen removed; the slug of
\* "General Investor Engagement" is "general-investor-engagement".  The
\* address bar shows that slug after the profile is selected.
SlugAsStated ==
    /\ generateSlug(nameOfProfile) = slugAsStated(nameOfProfile)
    /\ generateSlug(GeneralInvestorEngagement)
          = <<"g","e","n","e","r","a","l","-","i","n","v","e","s","t","o","r","-",
              "e","n","g","a","g","e","m","e","n","t">>
    /\ (lastEvent.name = "profile" /\ ~thrown) =>
          pathname = pathSegmentsOf(<<catalog[1].slug, slugAsStated(nameOfProfile)>>)

\* C22, its case: the profile "General Investor Engagement" was selected and
\* the address bar is at /e/general-investor-engagement
GeneralInvestorEngagementPublished ==
    /\ lastEvent.name = "profile"
    /\ nameOfProfile = GeneralInvestorEngagement
    /\ pathname = <<catalog[1].slug,
                    <<"g","e","n","e","r","a","l","-","i","n","v","e","s","t","o","r","-",
                      "e","n","g","a","g","e","m","e","n","t">>>>

\* C22, the case of a run of whitespace and of a stripped character: the
\* profile "& \t" was selected and the address bar is at /e/-
WhitespaceRunCollapsed ==
    /\ lastEvent.name = "profile"
    /\ nameOfProfile = <<"&", " ", "\t">>
    /\ pathname = <<catalog[1].slug, <<"-">>>>

(***************************************************************************)
(* Properties of whole sessions, checked under Spec.                       *)
(***************************************************************************)
\* C23: each click on the New or the Delete control, and each submit of the
\* edit form, runs its handler exactly once, however many categories were
\* selected and however many back/forward navigations happened before: when
\* the click is dispatched one listener is to run, and the submit that was
\* handled had one listener.
EachControlEventRunsHandlerOnce ==
    /\ lastEvent.name \in {"newClick", "deleteClick"} => pending.left = 1
    /\ lastEvent.name = "submit" => mgmtListeners = 1

\* C23, its failing case: the page was opened with Acme and Beta stored under
\* Invest, a category was selected once more, and then one click on Delete,
\* confirmed twice, deleted both entities
OneDeleteClickDeletedTwo ==
    /\ events = 2
    /\ lastEvent = [name |-> "delete", input |-> "ok"]
    /\ pending = NoPending
    /\ mgmtListeners = 2
    /\ categoryNameAt(categories, selectedCategoryIndex) = InvestName
    /\ storage.kind = "json"
    /\ entitiesUnder(storage.data, InvestName).keys = <<>>
    /\ investorOptions = <<>>

\* C23, the case of the New control: a second prompt is shown for one click
SecondPromptForOneClick ==
    /\ events = 2
    /\ lastEvent.name = "new"
    /\ pending = [target |-> "new", left |-> 1]
    /\ mgmtListeners = 2

\* the range inputs of state s show the scores of the result the store holds
\* for the selected (category, entity, profile), or 1 everywhere when it
\* holds none
showsOwnScores(s) ==
    LET C == categoryNameAt(s.categories, s.selectedCategoryIndex)
        P == profileNameAt(s.categories, s.selectedCategoryIndex, s.selectedProfileIndex)
        E == s.investorValue
    IN  IF hasResult(s.storage.data, C, E, P)
        THEN /\ Len(resultOf(s.storage.data, C, E, P).scores) = Len(s.sliders)
             /\ \A i \in DOMAIN s.sliders :
                   resultOf(s.storage.data, C, E, P).scores[i].score = Rat(s.sliders[i], 4)
        ELSE \A i \in DOMAIN s.sliders : s.sliders[i] = 4

\* an entity is selected in state s, on a page that is ready
entitySelected(s) ==
    s.loaded = "ready" /\ s.investorValue # "" /\ s.storage.kind = "json"

\* C24: between events, whenever an entity is selected, the scores displayed
\* are the scores saved for that entity and the selected (category, profile)
\* if a result exists, and all 1 otherwise; a newly created entity starts at
\* the default scores.
DisplayedScoresAreOwn ==
    (idle /\ entitySelected(Cur)) => showsOwnScores(Cur)

\* C24, its failing case: nothing was stored; Acme was created, a slider move
\* saved a result for it, then Beta was created: Beta has no result, the
\* inputs still show the scores saved for Acme, and the next slider move
\* saves them, but for the input moved, as the result of Beta
NewEntityShowsPreviousScores ==
    /\ events = 3
    /\ lastEvent = [name |-> "new", input |-> "Beta"]
    /\ idle
    /\ investorValue = "Beta"
    /\ categoryNameAt(categories, selectedCategoryIndex) = InvestName
    /\ selectedProfileIndex = 0
    /\ ~hasResult(storage.data, InvestName, "Beta", ProAName)
    /\ hasResult(storage.data, InvestName, "Acme", ProAName)
    /\ sliders = <<9, 4>>
    /\ resultOf(storage.data, InvestName, "Acme", ProAName).scores[1].score = Rat(9, 4)
    /\ resultOf(calculateAndDisplayResults([Cur EXCEPT !.sliders[2] = 20]).storage.data,
                InvestName, "Beta", ProAName).scores[1].score = Rat(9, 4)

\* C24, the part that holds: an event other than the creation of an entity
\* that starts with the own scores of the selected entity displayed, or with
\* no entity selected, ends with the own scores of the selected entity
\* displayed
OwnScoresKeptButByCreation ==
    [][ ( /\ entitySelected(Cur')
          /\ lastEvent'.name # "new"
          /\ entitySelected(Cur) => showsOwnScores(Cur) )
        => showsOwnScores(Cur')
      ]_vars

\* C24, the case of the part that holds: Beta, which has no result, was
\* selected after Acme and the inputs went back to 1
BetaSelectedShowsOnes ==
    /\ lastEvent.name = "change"
    /\ investorValue = "Beta"
    /\ ~hasResult(storage.data, InvestName, "Beta", ProAName)
    /\ hasResult(storage.data, InvestName, "Acme", ProAName)
    /\ sliders = <<4, 4>>

\* the last event was a navigation: the path resolved on load, a click on a
\* category or on a profile, or a back/forward navigation
navigated == lastEvent.name \in {"init", "category", "profile", "popstate"}

\* C25: navigation alone never writes results.  Selecting a category or a
\* profile, following a deep link, resolving /random or going back or
\* forward, with or without an entity selected, leaves the stored entities
\* as they were.
NavigationWritesNothing ==
    [][ navigated' => storage' = storage ]_vars

\* C25, its failing case: the page was opened with the result of Acme for
\* Pro A stored; one click on the card of R & D stored a result for Acme and
\* R & D, at the score 1 and 0.00%
ProfileClickStoredResult ==
    /\ events = 1
    /\ lastEvent.name = "profile"
    /\ investorValue = "Acme"
    /\ profileNameAt(categories, selectedCategoryIndex, selectedProfileIndex) = RAndDName
    /\ hasResult(storage.data, InvestName, "Acme", RAndDName)
    /\ resultOf(storage.data, InvestName, "Acme", RAndDName)
          = [scores |-> getScores(<<4>>, adjustedCriteria),
             percentageLikelihood |-> [kind |-> "fixed", h |-> 0]]
    /\ sliders = <<4>>

\* C25, the part that holds: a navigation removes no entity, changes no
\* picture and no result the store holds, and writes nothing when no entity
\* is selected at its end
NavigationOnlyAddsResults ==
    [][ (navigated' /\ storage.kind = "json") =>
          /\ storage'.kind = "json"
          /\ investorValue' = "" => storage' = storage
          /\ \A c \in DOMAIN storage.data :
                /\ c \in DOMAIN storage'.data
                /\ storage'.data[c].keys = storage.data[c].keys
                /\ \A e \in Range(storage.data[c].keys) :
                      /\ storage'.data[c].val[e].image = storage.data[c].val[e].image
                      /\ \A cc \in DOMAIN storage.data[c].val[e].cats :
                            /\ cc \in DOMAIN storage'.data[c].val[e].cats
                            /\ \A p \in DOMAIN storage.data[c].val[e].cats[cc] :
                                  /\ p \in DOMAIN storage'.data[c].val[e].cats[cc]
                                  /\ storage'.data[c].val[e].cats[cc][p]
                                        = storage.data[c].val[e].cats[cc][p]
      ]_vars

\* C25, the case of the part that holds: with no entity under Health, a
\* click on the menu link of Health left the store as the earlier session
\* had left it
CategoryClickWroteNothing ==
    /\ lastEvent.name = "category"
    /\ categoryNameAt(categories, selectedCategoryIndex) = HealthName
    /\ investorValue = ""
    /\ storage = StorageSaved

\* the percentage element shows, to two decimals, the total the engine
\* computes from the range inputs on the page ('0%' reads as 0.00)
showsAggregate ==
    /\ (percentageText.kind = "nan") = (toFixed2(shownTotal).kind = "nan")
    /\ percentageText.h = toFixed2(shownTotal).h

\* C27: between events, the percentage displayed equals the aggregate
\* computed from the scores displayed for the selected profile, inversion
\* included, after any sequence of profile selections, entity changes,
\* creations, deletions and slider moves; an entity without a result on a
\* profile with an inverted criterion is not shown as 0%.
DisplayedPercentageIsAggregate ==
    (idle /\ loaded = "ready") => showsAggregate

\* C27, its failing case: Beta, which has no result, was selected on Pro A,
\* whose criterion Risk is inverted: the inputs are at 1, the aggregate of
\* these scores is 40, and the page shows 0%
EntityWithoutResultShowsZero ==
    /\ lastEvent.name = "change"
    /\ idle
    /\ investorValue = "Beta"
    /\ profileNameAt(categories, selectedCategoryIndex, selectedProfileIndex) = ProAName
    /\ \E i \in DOMAIN adjustedCriteria : adjustedCriteria[i].invert
    /\ sliders = <<4, 4>>
    /\ shownTotal = Num(40)
    /\ percentageText = ZeroPercentText

\* C27, the part that holds: after an event that ends with a calculation - a
\* slider move, the selection of a profile or of a category, a path resolved,
\* a change of the chart option - the percentage is the aggregate of the
\* scores displayed
CalculationShowsAggregate ==
    (loaded = "ready" /\ ~thrown
        /\ lastEvent.name \in {"init", "category", "profile", "popstate", "slider", "pie"})
    => showsAggregate

\* C27, the case of the part that holds: Pro A selected by a click with no
\* entity stored, the inputs at 1 and the page at 40.00%
InvertedCriterionCounted ==
    /\ lastEvent.name = "profile"
    /\ investorOptions = <<>>
    /\ sliders = <<4, 4>>
    /\ shownTotal = Num(40)
    /\ percentageText = [kind |-> "fixed", h |-> 4000]

\* the profiles of the selected category for which the store holds a result
\* of the entity
profilesSavedFor(entityName) ==
    {i \in DOMAIN categories[selectedCategoryIndex + 1].profiles :
        hasResult(storage.data, categoryNameAt(categories, selectedCategoryIndex), entityName,
                  categories[selectedCategoryIndex + 1].profiles[i].name)}

\* the entity list is on the page: the catalog is loaded and the store read
listShown == loaded = "ready" /\ storage.kind = "json"

\* C28: in the entity list, the number shown as 'N profile(s) saved' for an
\* entity is the number of profiles of the selected category for which the
\* entity has a saved result, after any sequence of saves, deletes and image
\* updates.
ProfilesSavedCount ==
    listShown =>
        \A i \in DOMAIN investorList :
            investorList[i].profilesCount
                = Cardinality(profilesSavedFor(investorList[i].name))

\* C28, its failing case: Acme has a result for Pro A and, after a click on
\* the card of R & D, one for R & D; the list reads '1 profile(s) saved'
TwoResultsCountedOne ==
    /\ lastEvent.name = "profile"
    /\ listShown
    /\ investorList # <<>>
    /\ investorList[1].name = "Acme"
    /\ hasResult(storage.data, InvestName, "Acme", ProAName)
    /\ hasResult(storage.data, InvestName, "Acme", RAndDName)
    /\ Cardinality(profilesSavedFor("Acme")) = 2
    /\ investorList[1].profilesCount = 1

\* C28, the part that holds: the number is 0 for an entity without a result
\* in the selected category and 1 for an entity with one or more; the list
\* names the entities of the selected category in the order of the store
ProfilesSavedCountIsZeroOrOne ==
    listShown =>
        /\ [i \in DOMAIN investorList |-> investorList[i].name]
              = entitiesUnder(storage.data,
                              categoryNameAt(categories, selectedCategoryIndex)).keys
        /\ \A i \in DOMAIN investorList :
              investorList[i].profilesCount
                  = IF profilesSavedFor(investorList[i].name) = {} THEN 0 ELSE 1

\* C28, the case of the part that holds: Acme with its one result reads 1,
\* Beta without any reads 0, after a picture was given to Beta
OneAndZeroCounted ==
    /\ lastEvent.name = "submit"
    /\ listShown
    /\ Len(investorList) = 2
    /\ investorList[1] = [name |-> "Acme", profilesCount |-> 1, image |-> ""]
    /\ investorList[2] = [name |-> "Beta", profilesCount |-> 0, image |-> "data:image"]

\* the criteria the catalog gives for the profile of that name
criteriaOfProfile(categoryName, profileName) ==
    LET c == CHOOSE i \in DOMAIN catalog : catalog[i].name = categoryName
        p == CHOOSE i \in DOMAIN catalog[c].profiles :
                catalog[c].profiles[i].name = profileName
    IN  catalog[c].profiles[p].criteria

\* the aggregate of the scores and weights a result holds, each score
\* inverted where the criterion of the profile is, written to two decimals
aggregateOfResult(result, criteria) ==
    toFixed2(SumOfNumbers(
        [i \in DOMAIN result.scores |->
            Div(Mul(IF criteria[i].invert
                    THEN Sub(Num(5), result.scores[i].score)
                    ELSE Sub(result.scores[i].score, Num(1)),
                    result.scores[i].weight),
                Num(4))]))

\* C30: every result the store holds is self-consistent: its
\* percentageLikelihood is the aggregate, written to two decimals, of the
\* scores and weights stored with it under the inversion flags of its
\* profile, after any sequence of operations.
StoredResultsSelfConsistent ==
    storage.kind = "json" =>
        \A c \in DOMAIN storage.data :
           \A e \in Range(storage.data[c].keys) :
              \A cc \in DOMAIN storage.data[c].val[e].cats :
                 \A p \in DOMAIN storage.data[c].val[e].cats[cc] :
                    LET result == storage.data[c].val[e].cats[cc][p]
                    IN  /\ Len(result.scores) = Len(criteriaOfProfile(cc, p))
                        /\ result.percentageLikelihood
                              = aggregateOfResult(result, criteriaOfProfile(cc, p))

\* C30, its case: a slider move replaced the result of Acme for Pro A, whose
\* second criterion is inverted, by one of another percentage
ResultReplacedConsistently ==
    /\ lastEvent.name = "slider"
    /\ investorValue = "Acme"
    /\ hasResult(storage.data, InvestName, "Acme", ProAName)
    /\ resultOf(storage.data, InvestName, "Acme", ProAName).percentageLikelihood
          # SavedResult.percentageLikelihood
    /\ resultOf(storage.data, InvestName, "Acme", ProAName).percentageLikelihood
          = percentageText
    /\ sliders[2] # 4
    /\ adjustedCriteria[2].invert

(***************************************************************************)
(* Properties of the session history, checked under SpecRouter.            *)
(***************************************************************************)

\* a back/forward navigation has just been handled
wentBackOrForward == lastEvent.name = "popstate" /\ loaded = "ready"

\* C26: handling a back/forward navigation re-resolves the path without
\* adding history entries: the session history is left as it was and the
\* entry navigated to, another than the one left, is the current one, so
\* that every Back press leaves the user one entry further back and
\* repeated presses reach every earlier entry.
BackNavigationAddsNoEntry ==
    [][(lastEvent'.name = "popstate" /\ events' # events)
          => /\ history' = history
             /\ cursor' # cursor
             /\ pathSegments' = history'[cursor']]_vars

\* C26, where it fails: the first action of a session that opened at the
\* root path was a Back press from the fourth entry to the third; its
\* handler pushed entries after the third, and the user stands on the last
\* entry of a history that is longer than before
BackPressLandedAhead ==
    /\ wentBackOrForward
    /\ events = 1
    /\ ~thrown
    /\ history[1] = <<>>
    /\ pathSegments = history[3]
    /\ pushed >= 2
    /\ Len(history) = 3 + pushed
    /\ cursor = Len(history)

\* C26, what holds instead: a back/forward navigation keeps the entries up
\* to the one navigated to and pushes at least one entry after it, so the
\* user is never on the entry navigated to and no entry is ahead of the user
BackNavigationPushesEntries ==
    [][(lastEvent'.name = "popstate" /\ events' # events)
          => /\ pushed' >= 1
             /\ cursor' = Len(history')
             /\ \E index \in DOMAIN history \ {cursor} :
                   /\ pathSegments' = history[index]
                   /\ cursor' = index + pushed'
                   /\ SubSeq(history', 1, index) = SubSeq(history, 1, index)]_vars

\* C26, its case for what holds: a navigation back to the first entry of the
\* session, after which the user stands on a later entry
FirstEntryLeftBehind ==
    /\ wentBackOrForward
    /\ pathSegments = history[1]
    /\ cursor > 1
    /\ cursor = Len(history)

(***************************************************************************)
(* Properties of the selection, checked under Spec.                        *)
(***************************************************************************)

====
